---- MODULE Spec2Model ----
(***************************************************************************)
(* MADO manifest-driven loading: MadoParser, first-image prefetch, metadata *)
(* synthesis and the store bridge of the DICOMweb data source.              *)
(*                                                                          *)
(* JavaScript values are encoded as follows.                                *)
(*   - an optional scalar is a set with at most one element: {} is          *)
(*     undefined, {v} is the value v;                                       *)
(*   - an optional string is a string, "" standing for undefined (the code  *)
(*     only tests strings for truthiness);                                  *)
(*   - an optional array is a sequence, <<>> standing for undefined; its    *)
(*     elements are sets with at most one element, {} being NaN.            *)
(***************************************************************************)
EXTENDS Integers, Sequences, FiniteSets, TLC

VARIABLES
  manifest,     \* the manifest document being loaded
  pc,           \* position of the load / of the function under test
  displaySets,  \* MadoDisplaySet[] returned by MadoParser.parse
  error,        \* the error raised, "" when none
  metaMap,      \* prefetch result: series index -> sample metadata, <<>> when none
  cursor,       \* index of the series the prefetch / synthesis loop is at
  store,        \* DicomMetadataStore: series records and instance records written
  registered,   \* image ids registered with the metadata provider
  synIn,        \* input of the apply-sample + synthesize step
  synOut,       \* synthesized instance record
  arrayBuffer,  \* the buffer handed to extractMetadataFromDicomBuffer
  tried,        \* the parse strategies the extraction has attempted, in order
  extracted,    \* the ExtractedSeriesMetadata returned, {} while there is none
  response,     \* a multipart response: its body bytes and content type
  part,         \* what extractFirstPartFromMultipart returned, {} for null
  wadoRoot,     \* the global default retrieval root handed to the prefetch
  server,       \* per series: the outcomes its requests and its parse can have
  hung,         \* the series whose retrieval never completes
  task,         \* per series: the state of its fetchAndExtractSeriesMetadata call
  prefetchedImageCache,  \* the prefetched-bytes cache: key -> buffer
  cacheSets,    \* per cache key: the number of prefetchedImageCache.set calls
  call,         \* the helper function being called: its arguments and locals
  returned      \* what the helper function returned

\* the state of the load and of the synthesis, but for pc and error
loadVars == <<manifest, displaySets, metaMap, cursor, store, registered,
              synIn, synOut>>

\* the state of one extractMetadataFromDicomBuffer call
extractVars == <<arrayBuffer, tried, extracted>>

\* the state of one extractFirstPartFromMultipart call
multipartVars == <<response, part>>

\* the state of one prefetchSeriesFirstImages call, but for displaySets,
\* metaMap and cursor
prefetchVars == <<wadoRoot, server, hung, task, prefetchedImageCache, cacheSets>>

\* the state of one call of a helper function
callVars == <<call, returned>>

\* the state outside the load and the synthesis
extVars == <<extractVars, multipartVars, prefetchVars, callVars>>

vars == <<manifest, pc, displaySets, error, metaMap, cursor, store, registered,
          synIn, synOut, extVars>>

\* no extraction is under way
ExtractIdle ==
  /\ arrayBuffer = [kind |-> "none"]
  /\ tried = <<>>
  /\ extracted = {}

\* no multipart response is being taken apart
MultipartIdle ==
  /\ response = [kind |-> "none"]
  /\ part = {}

\* no concurrent prefetch is under way
PrefetchIdle ==
  /\ wadoRoot = <<>>
  /\ server = <<>>
  /\ hung = {}
  /\ task = <<>>
  /\ prefetchedImageCache = <<>>
  /\ cacheSets = <<>>

\* no helper function is being called
CallIdle ==
  /\ call = [fn |-> "none"]
  /\ returned = [kind |-> "none"]

ExtIdle == ExtractIdle /\ MultipartIdle /\ PrefetchIdle /\ CallIdle

----------------------------------------------------------------------------
(* Value encoding *)

undefined == {}
Some(v) == {v}
ValueOf(m) == CHOOSE v \in m : TRUE
\* JavaScript truthiness of an optional number
Truthy(m) == m # {} /\ m # {0}
\* a || b on optional numbers
OrElse(a, b) == IF Truthy(a) THEN a ELSE b
\* a ?? b on optional numbers
Coalesce(a, b) == IF a # undefined THEN a ELSE b

NaN == {}
Add(a, b) == {x + y : x \in a, y \in b}
Sub(a, b) == {x - y : x \in a, y \in b}
Mul(a, b) == {x * y : x \in a, y \in b}
\* arr[i] with JavaScript's out-of-range read (0-based index)
At(arr, i) == IF (i + 1) \in DOMAIN arr THEN arr[i + 1] ELSE undefined
Vec(s) == [i \in DOMAIN s |-> {s[i]}]
IsNumeric(arr) == \A i \in DOMAIN arr : arr[i] # NaN

----------------------------------------------------------------------------
(* Bounds of the model *)

\* longest ReferencedSOPSequence of the first series item of a manifest
MaxInst == 2
\* largest instance index a synthesized slice is given
MaxIndex == 2

----------------------------------------------------------------------------
(* MadoParser *)

\* sort key of an instance lacking an instance number
MISSING_INSTANCE_NUMBER == 999999

\* lexical order of the SOP instance UIDs used by the model
UidOrder == <<"1.2.1", "1.2.2", "1.2.3">>
UidRank(u) == CHOOSE i \in 1..Len(UidOrder) : UidOrder[i] = u
LexLess(a, b) == UidRank(a) < UidRank(b)

\* parseInt(text, 10) on the instance-number texts of the content sequence
parseInt(t) ==
  CASE t = "1" -> 1
    [] t = "2" -> 2
    [] t = "03" -> 3
    [] t = "7" -> 7

\* retrieveURL.split('/studies')[0], a URL being its sequence of path segments
RECURSIVE splitStudies(_)
splitStudies(url) ==
  IF url = <<>> \/ Head(url) = "studies" THEN <<>>
  ELSE <<Head(url)>> \o splitStudies(Tail(url))

\* a MadoInstance as parse creates it; the fields below the first seven are
\* the ones the prefetch stage adds to the object later
BlankInstance ==
  [ sopClassUID |-> "", sopInstanceUID |-> "", instanceNumber |-> undefined,
    numberOfFrames |-> undefined, rows |-> undefined, columns |-> undefined,
    wadoRoot |-> <<>>,
    Rows |-> undefined, Columns |-> undefined,
    BitsAllocated |-> undefined, BitsStored |-> undefined, HighBit |-> undefined,
    SamplesPerPixel |-> undefined, PhotometricInterpretation |-> "",
    PixelSpacing |-> <<>>, pixelSpacing |-> <<>>,
    ImageOrientationPatient |-> <<>>, imageOrientationPatient |-> <<>>,
    ImagePositionPatient |-> <<>>, imagePositionPatient |-> <<>>,
    SliceThickness |-> undefined, sliceThickness |-> undefined,
    SpacingBetweenSlices |-> undefined,
    RedPaletteColorLookupTableDescriptor |-> <<>>,
    NumberOfFrames |-> undefined,
    _prefetchedMetadata |-> FALSE, _geometryPatched |-> FALSE ]

\* referencedSOPSequence.map(sopItem => ({...}))
mapSopItem(sopItem, retrieveURL) ==
  [ BlankInstance EXCEPT
      !.sopClassUID = sopItem.ReferencedSOPClassUID,
      !.sopInstanceUID = sopItem.ReferencedSOPInstanceUID,
      !.instanceNumber = sopItem.InstanceNumber,
      !.numberOfFrames = sopItem.NumberOfFrames,
      !.rows = sopItem.Rows,
      !.columns = sopItem.Columns,
      !.wadoRoot = IF retrieveURL # <<>> THEN splitStudies(retrieveURL) ELSE <<>> ]

\* a filter that lets every referenced item through
filterValid_keepAll(instances) == instances

\* instances.filter(inst => inst.sopClassUID && inst.sopInstanceUID)
filterValid(instances) ==
  SelectSeq(instances, LAMBDA inst : inst.sopClassUID # "" /\ inst.sopInstanceUID # "")

\* the groups of the content sequence that name this series (ddd006)
matchingGroups(contentSequence, seriesInstanceUID) ==
  SelectSeq(contentSequence, LAMBDA g : g.seriesUID = seriesInstanceUID)

\* instanceMetadataMap: SOP instance UID -> instance number (ddd008) of the
\* IMAGE items of the matching groups; a later entry replaces an earlier one
RECURSIVE imageEntries(_)
imageEntries(groups) ==
  IF groups = <<>> THEN <<>> ELSE Head(groups).images \o imageEntries(Tail(groups))

instanceMetadataMap(contentSequence, seriesInstanceUID, uid) ==
  LET entries == SelectSeq(imageEntries(matchingGroups(contentSequence, seriesInstanceUID)),
                           LAMBDA e : e.uid = uid /\ e.uid # "" /\ e.numText # "")
  IN IF entries = <<>> THEN undefined ELSE Some(parseInt(entries[Len(entries)].numText))

\* validInstances.forEach(instance => { ... instance.instanceNumber = enriched })
enrich(instances, contentSequence, seriesInstanceUID) ==
  [ i \in DOMAIN instances |->
      LET e == instanceMetadataMap(contentSequence, seriesInstanceUID,
                                   instances[i].sopInstanceUID)
      IN IF e # undefined THEN [instances[i] EXCEPT !.instanceNumber = e]
         ELSE instances[i] ]

\* const numA = a.instanceNumber ?? 999999
sortKey(inst) == ValueOf(Coalesce(inst.instanceNumber, Some(MISSING_INSTANCE_NUMBER)))

\* the comparator of validInstances.sort: numA - numB
compareInstances(a, b) == sortKey(a) - sortKey(b)

\* Array.prototype.sort is stable: an element goes after every element already
\* placed that does not compare greater than it
RECURSIVE insertStable(_, _)
insertStable(sorted, x) ==
  IF sorted = <<>> THEN <<x>>
  ELSE IF compareInstances(Head(sorted), x) > 0 THEN <<x>> \o sorted
  ELSE <<Head(sorted)>> \o insertStable(Tail(sorted), x)

RECURSIVE sortInstances(_)
sortInstances(instances) ==
  IF instances = <<>> THEN <<>>
  ELSE insertStable(sortInstances(SubSeq(instances, 1, Len(instances) - 1)),
                    instances[Len(instances)])

\* a series field (date, time, number) of the last matching group, "" when
\* that group does not set it
groupField(contentSequence, seriesInstanceUID, field) ==
  LET groups == matchingGroups(contentSequence, seriesInstanceUID)
  IN IF groups = <<>> THEN "" ELSE groups[Len(groups)][field]

\* a walk that turns a series item without SeriesInstanceUID into a
\* descriptor like any other
parseSeriesItem_keepNoUid(m, seriesItem) ==
  LET instances == [i \in DOMAIN seriesItem.ReferencedSOPSequence |->
                      mapSopItem(seriesItem.ReferencedSOPSequence[i], seriesItem.RetrieveURL)]
      validInstances == filterValid(instances)
  IN IF Len(validInstances) > 0
     THEN << [ studyInstanceUID |-> m.StudyInstanceUID,
               seriesInstanceUID |-> seriesItem.SeriesInstanceUID,
               seriesDate |-> m.StudyDate,
               seriesTime |-> m.StudyTime,
               seriesNumber |-> "",
               modality |-> seriesItem.Modality,
               retrieveURL |-> seriesItem.RetrieveURL,
               instances |-> sortInstances(validInstances) ] >>
     ELSE <<>>

\* the body of referencedSeriesSequence.forEach: the descriptors one series
\* item adds to displaySetsToLoad (none or one)
parseSeriesItem(m, seriesItem) ==
  LET seriesInstanceUID == seriesItem.SeriesInstanceUID
      instances == [i \in DOMAIN seriesItem.ReferencedSOPSequence |->
                      mapSopItem(seriesItem.ReferencedSOPSequence[i], seriesItem.RetrieveURL)]
      validInstances == filterValid(instances)
      seriesDate == groupField(m.ContentSequence, seriesInstanceUID, "seriesDate")
      seriesTime == groupField(m.ContentSequence, seriesInstanceUID, "seriesTime")
      seriesNumber == groupField(m.ContentSequence, seriesInstanceUID, "seriesNumber")
  IN IF seriesInstanceUID = "" THEN <<>>
     ELSE IF Len(validInstances) > 0
     THEN << [ studyInstanceUID |-> m.StudyInstanceUID,
               seriesInstanceUID |-> seriesInstanceUID,
               seriesDate |-> IF seriesDate # "" THEN seriesDate ELSE m.StudyDate,
               seriesTime |-> IF seriesTime # "" THEN seriesTime ELSE m.StudyTime,
               seriesNumber |-> seriesNumber,
               modality |-> seriesItem.Modality,
               retrieveURL |-> seriesItem.RetrieveURL,
               instances |-> sortInstances(
                   enrich(validInstances, m.ContentSequence, seriesInstanceUID)) ] >>
     ELSE <<>>

\* a walk that leaves the referenced-series sequence after its first item
parseSeriesSequence_firstOnly(m, seriesSeq) ==
  IF seriesSeq = <<>> THEN <<>> ELSE parseSeriesItem(m, Head(seriesSeq))

RECURSIVE parseSeriesSequence(_, _)
parseSeriesSequence(m, seriesSeq) ==
  IF seriesSeq = <<>> THEN <<>>
  ELSE parseSeriesItem(m, Head(seriesSeq)) \o parseSeriesSequence(m, Tail(seriesSeq))

\* evidenceSequence.forEach(studyItem => ...)
RECURSIVE parseEvidence(_, _)
parseEvidence(m, evidence) ==
  IF evidence = <<>> THEN <<>>
  ELSE parseSeriesSequence(m, Head(evidence).ReferencedSeriesSequence)
         \o parseEvidence(m, Tail(evidence))

\* parse without the guard on the top-level StudyInstanceUID
parse_noStudyCheck(m) ==
  IF ~m.readable
  THEN [error |-> "UnreadableFile", displaySets |-> <<>>]
  ELSE [error |-> "", displaySets |-> parseEvidence(m, m.EvidenceSequence)]

\* MadoParser.parse: the error raised ("" when none) and the descriptors
parse(m) ==
  IF ~m.readable
  THEN [error |-> "UnreadableFile", displaySets |-> <<>>]
  ELSE IF m.StudyInstanceUID = ""
  THEN [error |-> "MissingStudyUID", displaySets |-> <<>>]
  ELSE [error |-> "", displaySets |-> parseEvidence(m, m.EvidenceSequence)]

\* a validation that accepts every result
validate_acceptAll(dss) == TRUE

\* MadoParser.validate
validate(dss) ==
  /\ Len(dss) # 0
  /\ \A i \in DOMAIN dss :
       /\ dss[i].studyInstanceUID # "" /\ dss[i].seriesInstanceUID # ""
       /\ Len(dss[i].instances) # 0

----------------------------------------------------------------------------
(* Manifests the parser is run on *)

SeqsUpTo(S, n) == UNION {[1..k -> S] : k \in 0..n}

CT_IMAGE_STORAGE == "1.2.840.10008.5.1.4.1.1.2"

SopItem(c, u, n) ==
  [ ReferencedSOPClassUID |-> c, ReferencedSOPInstanceUID |-> u, InstanceNumber |-> n,
    NumberOfFrames |-> undefined, Rows |-> undefined, Columns |-> undefined ]

\* referenced-SOP items: every valid pairing of two UIDs with an instance
\* number, one item without SOP class UID, one without SOP instance UID
SopItems ==
  {SopItem(CT_IMAGE_STORAGE, u, n) : u \in {"1.2.1", "1.2.2"}, n \in {undefined, {1}, {2}}}
    \cup {SopItem("", "1.2.1", undefined), SopItem(CT_IMAGE_STORAGE, "", undefined)}

RetrieveURLs == {<<>>, <<"https://pacs", "rs", "studies", "S1", "series", "SE">>}

SeriesItem(uid, url, sops) ==
  [ SeriesInstanceUID |-> uid, Modality |-> "CT", RetrieveURL |-> url,
    ReferencedSOPSequence |-> sops ]

FirstSeriesItems ==
  {SeriesItem(uid, <<>>, sops) : uid \in {"", "SE1"}, sops \in SeqsUpTo(SopItems, MaxInst)}

SecondSeriesItems ==
  {SeriesItem(uid, url, sops) :
     uid \in {"", "SE1", "SE2"}, url \in RetrieveURLs,
     sops \in {<<>>, <<SopItem(CT_IMAGE_STORAGE, "1.2.3", {1})>>}}

StudyItem(uid, series) == [StudyInstanceUID |-> uid, ReferencedSeriesSequence |-> series]

\* evidence sequences: one study item with one or two series items, or two
\* study items of one series item each, the second naming study S1 or S2
EvidenceSequences ==
  {<<StudyItem("S1", <<a>>)>> : a \in FirstSeriesItems}
    \cup {<<StudyItem("S1", <<a, b>>)>> : a \in FirstSeriesItems, b \in SecondSeriesItems}
    \cup {<<StudyItem("S1", <<a>>), StudyItem(s, <<b>>)>> :
            a \in FirstSeriesItems, b \in SecondSeriesItems, s \in {"S1", "S2"}}

\* content sequences: none, or one image-library group for series SE1 giving
\* a series date and the instance number "7" of instance 1.2.1
ContentSequences ==
  { <<>>,
    << [ seriesUID |-> "SE1", seriesDate |-> "20240202", seriesTime |-> "120000",
         seriesNumber |-> "5",
         images |-> << [uid |-> "1.2.1", numText |-> "7"] >> ] >> }

Manifest(study, evidence, content) ==
  [ readable |-> TRUE, StudyInstanceUID |-> study, StudyDate |-> "20240101",
    StudyTime |-> "101500",
    EvidenceSequence |-> evidence, ContentSequence |-> content ]

UnreadableManifest == [Manifest("", <<>>, <<>>) EXCEPT !.readable = FALSE]

ParseManifests ==
  {Manifest(s, e, c) : s \in {"", "S1"}, e \in EvidenceSequences, c \in ContentSequences}
    \cup {UnreadableManifest}

----------------------------------------------------------------------------
(* madoMetadata: fetch, parse, validate *)

NoSynIn == [kind |-> "none"]
NoSynOut == [kind |-> "none"]
EmptyStore == [series |-> <<>>, instances |-> <<>>]

InitWith(manifests) ==
  /\ manifest \in manifests
  /\ pc = "fetch"
  /\ displaySets = <<>>
  /\ error = ""
  /\ metaMap = <<>>
  /\ cursor = 0
  /\ store = EmptyStore
  /\ registered = {}
  /\ synIn = NoSynIn
  /\ synOut = NoSynOut
  /\ ExtIdle

\* await MadoParser.fetchManifest(manifestUrl, authHeaders)
FetchManifest ==
  /\ pc = "fetch"
  /\ \E ok \in BOOLEAN :
       IF ok THEN pc' = "parse" /\ error' = ""
       ELSE pc' = "aborted" /\ error' = "FetchFailed"
  /\ UNCHANGED <<manifest, displaySets, metaMap, cursor, store, registered, synIn, synOut>>
  /\ UNCHANGED extVars

\* const displaySets = MadoParser.parse(arrayBuffer)
MadoParse ==
  /\ pc = "parse"
  /\ LET r == parse(manifest)
     IN /\ displaySets' = r.displaySets
        /\ error' = r.error
        /\ pc' = IF r.error # "" THEN "aborted" ELSE "validate"
  /\ UNCHANGED <<manifest, metaMap, cursor, store, registered, synIn, synOut>>
  /\ UNCHANGED extVars

\* if (!MadoParser.validate(displaySets)) throw ...
MadoValidate ==
  /\ pc = "validate"
  /\ IF validate(displaySets)
     THEN pc' = "retrieve" /\ error' = "" /\ cursor' = 1
     ELSE pc' = "aborted" /\ error' = "ValidationFailed" /\ cursor' = cursor
  /\ UNCHANGED <<manifest, displaySets, metaMap, store, registered, synIn, synOut>>
  /\ UNCHANGED extVars

InitParse == InitWith(ParseManifests)
NextParse == FetchManifest \/ MadoParse \/ MadoValidate
SpecParse == InitParse /\ [][NextParse]_vars

----------------------------------------------------------------------------
(* Properties of the parser *)

Parsed == pc \in {"validate", "retrieve"} \/ (pc = "aborted" /\ error = "ValidationFailed")

AllSeriesItems(m) ==
  UNION { {<<st, se>> : se \in 1..Len(m.EvidenceSequence[st].ReferencedSeriesSequence)} :
          st \in 1..Len(m.EvidenceSequence) }

\* C2: parse raises for every manifest without a top-level StudyInstanceUID,
\* whatever its evidence and content sequences hold; it returns no descriptors
\* and the load is aborted.
C2_MissingStudyUIDAborts ==
  (manifest.StudyInstanceUID = "" /\ pc \notin {"fetch", "parse"})
    => /\ pc = "aborted"
       /\ error \in {"FetchFailed", "UnreadableFile", "MissingStudyUID"}
       /\ displaySets = <<>>

\* a manifest without StudyInstanceUID whose evidence sequence references a
\* complete series and which has a content sequence was parsed and aborted
C2_Witness ==
  /\ pc = "aborted" /\ error = "MissingStudyUID"
  /\ manifest.ContentSequence # <<>>
  /\ \E p \in AllSeriesItems(manifest) :
       LET item == manifest.EvidenceSequence[p[1]].ReferencedSeriesSequence[p[2]]
       IN /\ item.SeriesInstanceUID # ""
          /\ filterValid([i \in DOMAIN item.ReferencedSOPSequence |->
                 mapSopItem(item.ReferencedSOPSequence[i], item.RetrieveURL)]) # <<>>

\* C3: in every descriptor returned by parse the instances are in ascending
\* instance-number order, and two instances with equal instance number (or
\* both without one) are in ascending lexical order of SOP instance UID.
C3_SortedWithLexicalTieBreak ==
  Parsed =>
    \A d \in DOMAIN displaySets :
      \A i \in 1..(Len(displaySets[d].instances) - 1) :
        LET a == displaySets[d].instances[i]
            b == displaySets[d].instances[i + 1]
        IN /\ (a.instanceNumber # undefined /\ b.instanceNumber # undefined)
                => ValueOf(a.instanceNumber) <= ValueOf(b.instanceNumber)
           /\ (a.instanceNumber = b.instanceNumber)
                => ~LexLess(b.sopInstanceUID, a.sopInstanceUID)

SeriesAt(m, p) == m.EvidenceSequence[p[1]].ReferencedSeriesSequence[p[2]]

\* the references of the evidence sequence in which every UID is present
CompleteRefs(m) ==
  UNION { { <<p, k>> : k \in { j \in 1..Len(SeriesAt(m, p).ReferencedSOPSequence) :
                                /\ m.EvidenceSequence[p[1]].StudyInstanceUID # ""
                                /\ SeriesAt(m, p).SeriesInstanceUID # ""
                                /\ SeriesAt(m, p).ReferencedSOPSequence[j].ReferencedSOPClassUID # ""
                                /\ SeriesAt(m, p).ReferencedSOPSequence[j].ReferencedSOPInstanceUID # "" } } :
          p \in AllSeriesItems(m) }

\* the (study, series, instance) triples the evidence sequence references; the
\* study of a reference is the manifest's StudyInstanceUID (0020,000D), the
\* only study identifier of the manifest format
ManifestTriples(m) ==
  { <<m.StudyInstanceUID,
      SeriesAt(m, r[1]).SeriesInstanceUID,
      SeriesAt(m, r[1]).ReferencedSOPSequence[r[2]].ReferencedSOPInstanceUID>> :
    r \in CompleteRefs(m) }

OutputRefs(dss) ==
  UNION { { <<d, i>> : i \in 1..Len(dss[d].instances) } : d \in DOMAIN dss }

\* the triples of parse's output
OutputTriples(dss) ==
  { <<dss[r[1]].studyInstanceUID, dss[r[1]].seriesInstanceUID,
      dss[r[1]].instances[r[2]].sopInstanceUID>> : r \in OutputRefs(dss) }

C5_DescriptorsComplete ==
  /\ Parsed =>
       \A d \in DOMAIN displaySets :
         /\ displaySets[d].studyInstanceUID # ""
         /\ displaySets[d].seriesInstanceUID # ""
         /\ Len(displaySets[d].instances) >= 1
         /\ \A i \in DOMAIN displaySets[d].instances :
              /\ displaySets[d].instances[i].sopClassUID # ""
              /\ displaySets[d].instances[i].sopInstanceUID # ""
  /\ (pc = "aborted" /\ error = "ValidationFailed") => displaySets = <<>>

\* a manifest with a series item lacking its UID and a referenced item
\* lacking a UID was parsed into a non-empty result that passed validation
C5_Witness ==
  /\ pc = "retrieve"
  /\ Len(displaySets) >= 1
  /\ \E p \in AllSeriesItems(manifest) : SeriesAt(manifest, p).SeriesInstanceUID = ""
  /\ \E p \in AllSeriesItems(manifest) :
       /\ SeriesAt(manifest, p).SeriesInstanceUID # ""
       /\ \E k \in DOMAIN SeriesAt(manifest, p).ReferencedSOPSequence :
            SeriesAt(manifest, p).ReferencedSOPSequence[k].ReferencedSOPInstanceUID = ""

----------------------------------------------------------------------------
(* Application of the prefetched first-image sample (retrieveMadoMetadata) *)

\* a || b on optional strings and on optional arrays
StrOr(a, b) == IF a # "" THEN a ELSE b
ArrOr(a, b) == IF a # <<>> THEN a ELSE b

\* String.prototype.toUpperCase on the strings of the model
toUpperCase(str) ==
  CASE str = "ct" -> "CT"
    [] OTHER -> str

\* str.startsWith('RGB') || str.startsWith('YBR')
startsWithRGBorYBR(str) == str \in {"RGB", "YBR_FULL", "YBR_FULL_422"}
\* str.startsWith('MONO')
startsWithMONO(str) == str \in {"MONOCHROME1", "MONOCHROME2"}

\* the photometric interpretation of a file whose value reads as a number:
\* parsePossiblyNumeric and getV hand it on as a number, not as a string
NumericPhotometric == "#2"
\* typeof value === 'string'
isString(value) == value # NumericPhotometric

\* an ExtractedSeriesMetadata with no attribute set
BlankSample ==
  [ Rows |-> undefined, Columns |-> undefined,
    BitsAllocated |-> undefined, BitsStored |-> undefined, HighBit |-> undefined,
    SamplesPerPixel |-> undefined, PhotometricInterpretation |-> "",
    PixelSpacing |-> <<>>, ImageOrientationPatient |-> <<>>,
    ImagePositionPatient |-> <<>>,
    SliceThickness |-> undefined, SpacingBetweenSlices |-> undefined,
    RedPaletteColorLookupTableDescriptor |-> <<>>,
    NumberOfFrames |-> undefined ]

\* a spacing that prefers the slice thickness
sliceSpacing_thicknessFirst(seriesMeta) ==
  OrElse(OrElse(seriesMeta.SliceThickness, seriesMeta.SpacingBetweenSlices), {1})

\* seriesMeta.SpacingBetweenSlices || seriesMeta.SliceThickness || 1.0
sliceSpacing(seriesMeta) ==
  OrElse(OrElse(seriesMeta.SpacingBetweenSlices, seriesMeta.SliceThickness), {1})

\* seriesMeta.ImageOrientationPatient || [1, 0, 0, 0, 1, 0]
sampleOrientation(seriesMeta) ==
  ArrOr(seriesMeta.ImageOrientationPatient, Vec(<<1, 0, 0, 0, 1, 0>>))

\* seriesMeta.ImagePositionPatient || [0, 0, 0]
firstPosition(seriesMeta) ==
  ArrOr(seriesMeta.ImagePositionPatient, Vec(<<0, 0, 0>>))

\* cross product of orientation.slice(0, 3) and orientation.slice(3, 6)
sliceNormal(orientation) ==
  LET r0 == At(orientation, 0)
      r1 == At(orientation, 1)
      r2 == At(orientation, 2)
      c0 == IF Len(orientation) > 3 THEN At(orientation, 3) ELSE undefined
      c1 == IF Len(orientation) > 3 THEN At(orientation, 4) ELSE undefined
      c2 == IF Len(orientation) > 3 THEN At(orientation, 5) ELSE undefined
  IN << Sub(Mul(r1, c2), Mul(r2, c1)),
        Sub(Mul(r2, c0), Mul(r0, c2)),
        Sub(Mul(r0, c1), Mul(r1, c0)) >>

\* pos = firstPosition + sliceNormal * (idx * sliceSpacing)
derivedPosition(seriesMeta, idx) ==
  LET offset == Mul({idx}, sliceSpacing(seriesMeta))
      first == firstPosition(seriesMeta)
      normal == sliceNormal(sampleOrientation(seriesMeta))
  IN << Add(At(first, 0), Mul(normal[1], offset)),
        Add(At(first, 1), Mul(normal[2], offset)),
        Add(At(first, 2), Mul(normal[3], offset)) >>

\* an application that leaves the rows and columns of the manifest in place
applyRowsColumns_keepManifest(instance, seriesMeta) ==
  [ instance EXCEPT
      !.rows = IF instance.rows # undefined THEN @ ELSE Coalesce(seriesMeta.Rows, @),
      !.Rows = IF instance.rows # undefined THEN instance.rows
               ELSE Coalesce(seriesMeta.Rows, @),
      !.columns = IF instance.columns # undefined THEN @
                  ELSE Coalesce(seriesMeta.Columns, @),
      !.Columns = IF instance.columns # undefined THEN instance.columns
                  ELSE Coalesce(seriesMeta.Columns, @) ]

\* if (seriesMeta.Rows !== undefined) { instance.rows = instance.Rows = ... }
\* and the same for Columns
applyRowsColumns(instance, seriesMeta) ==
  [ instance EXCEPT
      !.rows = Coalesce(seriesMeta.Rows, @),
      !.Rows = Coalesce(seriesMeta.Rows, @),
      !.columns = Coalesce(seriesMeta.Columns, @),
      !.Columns = Coalesce(seriesMeta.Columns, @) ]

\* hasValidGeometry of an instance the sample was applied to
hasValidGeometry(instance) ==
  /\ Truthy(instance.Rows)
  /\ Truthy(instance.Columns)
  /\ Len(instance.ImagePositionPatient) = 3
  /\ Len(instance.ImageOrientationPatient) = 6
  /\ Len(instance.PixelSpacing) = 2

\* the body of ds.instances.forEach((instance, idx) => {...}) that copies the
\* sample onto one instance
applySample(instance, seriesMeta, idx) ==
  LET a == applyRowsColumns(instance, seriesMeta)
      b == [ a EXCEPT
               !.BitsAllocated = Coalesce(seriesMeta.BitsAllocated, @),
               !.BitsStored = Coalesce(seriesMeta.BitsStored, @),
               !.HighBit = Coalesce(seriesMeta.HighBit, @),
               !.SamplesPerPixel = Coalesce(seriesMeta.SamplesPerPixel, @),
               !.PhotometricInterpretation =
                  StrOr(seriesMeta.PhotometricInterpretation, @),
               !.PixelSpacing = ArrOr(seriesMeta.PixelSpacing, @),
               !.pixelSpacing = ArrOr(seriesMeta.PixelSpacing, @),
               !.ImageOrientationPatient = ArrOr(seriesMeta.ImageOrientationPatient, @),
               !.imageOrientationPatient = ArrOr(seriesMeta.ImageOrientationPatient, @),
               !.ImagePositionPatient =
                  IF seriesMeta.ImagePositionPatient # <<>>
                  THEN derivedPosition(seriesMeta, idx) ELSE @,
               !.imagePositionPatient =
                  IF seriesMeta.ImagePositionPatient # <<>>
                  THEN derivedPosition(seriesMeta, idx) ELSE @,
               !.SliceThickness = Coalesce(seriesMeta.SliceThickness, @),
               !.sliceThickness = Coalesce(seriesMeta.SliceThickness, @),
               !.SpacingBetweenSlices = Coalesce(seriesMeta.SpacingBetweenSlices, @),
               !.RedPaletteColorLookupTableDescriptor =
                  ArrOr(seriesMeta.RedPaletteColorLookupTableDescriptor, @),
               !.NumberOfFrames = Coalesce(seriesMeta.NumberOfFrames, @),
               !.numberOfFrames = Coalesce(seriesMeta.NumberOfFrames, @),
               !._prefetchedMetadata = TRUE ]
  IN [ b EXCEPT !._geometryPatched = IF hasValidGeometry(b) THEN TRUE ELSE @ ]

----------------------------------------------------------------------------
(* synthesizeMetadataFromMado *)

NoPhysics ==
  [ SamplesPerPixel |-> undefined, PhotometricInterpretation |-> "",
    BitsAllocated |-> undefined, BitsStored |-> undefined, HighBit |-> undefined,
    Rows |-> undefined, Columns |-> undefined ]

\* MODALITY_PHYSICS[modality] || {}
MODALITY_PHYSICS(modality) ==
  CASE modality = "PT" -> [NoPhysics EXCEPT !.Rows = {128}, !.Columns = {128}]
    [] modality = "US" ->
         [NoPhysics EXCEPT !.SamplesPerPixel = {3},
                           !.PhotometricInterpretation = "YBR_FULL_422",
                           !.BitsAllocated = {8}, !.BitsStored = {8}, !.HighBit = {7}]
    [] modality \in {"XA", "OT"} ->
         [NoPhysics EXCEPT !.BitsAllocated = {8}, !.BitsStored = {8}, !.HighBit = {7}]
    [] modality = "SM" ->
         [NoPhysics EXCEPT !.SamplesPerPixel = {3},
                           !.PhotometricInterpretation = "YBR_FULL"]
    [] OTHER -> NoPhysics

\* validateSpacing: the first two components when both are positive numbers
validateSpacing(spacing) ==
  IF /\ Len(spacing) >= 2
     /\ spacing[1] # NaN /\ ValueOf(spacing[1]) > 0
     /\ spacing[2] # NaN /\ ValueOf(spacing[2]) > 0
  THEN <<spacing[1], spacing[2]>>
  ELSE Vec(<<1, 1>>)

\* a detection that never sees a palette descriptor
hasPaletteDescriptors_never(instance) == FALSE

\* instance.RedPaletteColorLookupTableDescriptor || (green, blue, UID)
hasPaletteDescriptors(instance) ==
  instance.RedPaletteColorLookupTableDescriptor # <<>>

\* the pixel module of synthesizeInstanceMetadata: samples per pixel,
\* photometric interpretation and bit depth
pixelModule(modality, instance) ==
  LET modalityPhysics == MODALITY_PHYSICS(modality)
      samplesPerPixel0 ==
        OrElse(instance.SamplesPerPixel, modalityPhysics.SamplesPerPixel)
      photometric0 ==
        StrOr(instance.PhotometricInterpretation,
              StrOr(modalityPhysics.PhotometricInterpretation, "MONOCHROME2"))
      isColorImage == startsWithRGBorYBR(toUpperCase(photometric0))
      samplesPerPixel1 ==
        IF samplesPerPixel0 = undefined
        THEN (IF isColorImage THEN {3} ELSE {1})
        ELSE samplesPerPixel0
      bits(given, color, gray) ==
        IF given # undefined THEN given ELSE IF isColorImage THEN {color} ELSE {gray}
      photometric1 ==
        IF instance.PhotometricInterpretation = ""
        THEN IF samplesPerPixel1 = {3} THEN "RGB"
             ELSE IF samplesPerPixel1 = {1} /\ hasPaletteDescriptors(instance)
                  THEN "PALETTE COLOR"
                  ELSE StrOr(modalityPhysics.PhotometricInterpretation, "MONOCHROME2")
        ELSE photometric0
      isLikelyColorMR ==
        modality = "MR"
          /\ (samplesPerPixel1 = {3} \/ startsWithRGBorYBR(photometric1))
  IN [ SamplesPerPixel |-> IF isLikelyColorMR THEN {3} ELSE samplesPerPixel1,
       PhotometricInterpretation |->
         IF isLikelyColorMR
         THEN (IF photometric1 \in {"YBR_FULL", "YBR_FULL_422"} THEN photometric1
               ELSE "RGB")
         ELSE photometric1,
       BitsAllocated |->
         bits(OrElse(instance.BitsAllocated, modalityPhysics.BitsAllocated), 8, 16),
       BitsStored |->
         bits(OrElse(instance.BitsStored, modalityPhysics.BitsStored), 8, 16),
       HighBit |-> bits(OrElse(instance.HighBit, modalityPhysics.HighBit), 7, 15) ]

\* hasValidSynthesizedGeometry
hasValidSynthesizedGeometry(metadata, instance, index) ==
  /\ Truthy(metadata.Rows)
  /\ Truthy(metadata.Columns)
  /\ Len(metadata.ImagePositionPatient) = 3
  /\ Len(metadata.ImageOrientationPatient) = 6
  /\ Len(metadata.PixelSpacing) = 2
  /\ \/ instance._prefetchedMetadata
     \/ instance._geometryPatched
     \/ metadata.ImagePositionPatient[1] # {0}
     \/ metadata.ImagePositionPatient[2] # {0}
     \/ metadata.ImagePositionPatient[3] # {0}
     \/ index = 0

\* patchTechnicalAttributes(metadata, instance)
patchTechnicalAttributes(metadata, instance) ==
  LET numberOfFrames ==
        OrElse(OrElse(instance.numberOfFrames, instance.NumberOfFrames), {0})
  IN [ metadata EXCEPT
         !.PhotometricInterpretation =
            IF metadata.SamplesPerPixel = {3} /\ startsWithMONO(@) THEN "RGB" ELSE @,
         !.NumberOfFrames = IF ValueOf(numberOfFrames) > 1 THEN numberOfFrames ELSE @ ]

\* synthesizeInstanceMetadata raises a TypeError where it calls startsWith on
\* a photometric interpretation that is not a string: in isLikelyColorMR, or
\* in the assignment under it when SamplesPerPixel is already 3
synthesizeThrows(displaySet, instance) ==
  LET modality ==
        toUpperCase(IF displaySet.modality # "" THEN displaySet.modality ELSE "OT")
  IN /\ modality = "MR"
     /\ instance.PhotometricInterpretation # ""
     /\ ~isString(instance.PhotometricInterpretation)

\* the force-color block at the end of synthesizeInstanceMetadata: it reads
\* and writes the instance reference, not the record, and is keyed on the
\* reference's own Modality field
forceColorMR(instance) ==
  LET numberOfFrames == instance.numberOfFrames
      instHasPalette == instance.RedPaletteColorLookupTableDescriptor # <<>>
  IN IF /\ "Modality" \in DOMAIN instance
        /\ instance.Modality = "MR"
        /\ numberOfFrames # undefined
        /\ ValueOf(numberOfFrames) > 1
        /\ \/ instance.SamplesPerPixel = {3}
           \/ startsWithRGBorYBR(instance.PhotometricInterpretation)
        /\ ~instHasPalette
     THEN [instance EXCEPT !.SamplesPerPixel = {3},
                           !.PhotometricInterpretation = "RGB"]
     ELSE instance

\* synthesizeInstanceMetadata(displaySet, instance, {imageId, index})
synthesizeInstanceMetadata(displaySet, instance, index) ==
  LET modality ==
        toUpperCase(IF displaySet.modality # "" THEN displaySet.modality ELSE "OT")
      pixel == pixelModule(modality, instance)
      sliceThickness ==
        OrElse(OrElse(instance.sliceThickness, instance.SliceThickness), {1})
      metadata ==
        [ SOPClassUID |-> instance.sopClassUID,
          SOPInstanceUID |-> instance.sopInstanceUID,
          InstanceNumber |-> OrElse(instance.instanceNumber, {index + 1}),
          StudyInstanceUID |-> displaySet.studyInstanceUID,
          SeriesInstanceUID |-> displaySet.seriesInstanceUID,
          Modality |-> modality,
          Rows |-> OrElse(instance.rows, {512}),
          Columns |-> OrElse(instance.columns, {512}),
          PixelSpacing |-> validateSpacing(ArrOr(instance.pixelSpacing, Vec(<<1, 1>>))),
          SliceThickness |-> sliceThickness,
          ImageOrientationPatient |->
            ArrOr(instance.imageOrientationPatient,
                  ArrOr(instance.ImageOrientationPatient, Vec(<<1, 0, 0, 0, 1, 0>>))),
          ImagePositionPatient |->
            ArrOr(instance.imagePositionPatient,
                  ArrOr(instance.ImagePositionPatient,
                        <<{0}, {0}, Mul({index}, sliceThickness)>>)),
          BitsAllocated |-> pixel.BitsAllocated,
          BitsStored |-> pixel.BitsStored,
          HighBit |-> pixel.HighBit,
          SamplesPerPixel |-> pixel.SamplesPerPixel,
          PhotometricInterpretation |-> pixel.PhotometricInterpretation,
          RedPaletteColorLookupTableDescriptor |->
            instance.RedPaletteColorLookupTableDescriptor,
          SpacingBetweenSlices |-> instance.SpacingBetweenSlices,
          NumberOfFrames |-> OrElse(instance.NumberOfFrames, instance.numberOfFrames),
          _hasPrefetchedMetadata |-> instance._prefetchedMetadata,
          _geometryPatched |-> FALSE ]
      flagged ==
        [ metadata EXCEPT
            !._geometryPatched =
               instance._geometryPatched
                 \/ hasValidSynthesizedGeometry(metadata, instance, index) ]
  IN patchTechnicalAttributes(flagged, instance)

----------------------------------------------------------------------------
(* One instance through sample application and synthesis *)

\* modality strings of a series: the profiled ones, a lower-case one, none
SynModalities == {"CT", "MR", "PT", "US", "XA", "SM", "OT", "ct", ""}

\* referenced-SOP items with and without rows/columns and frame count
HintedSopItems ==
  { [SopItem(CT_IMAGE_STORAGE, "1.2.1", {1}) EXCEPT
       !.Rows = r, !.Columns = r, !.NumberOfFrames = f] :
    r \in {undefined, {256}}, f \in {undefined, {10}} }

BitDepths == {<<undefined, undefined, undefined>>, <<{8}, {8}, {7}>>, <<{16}, {12}, {11}>>}

\* samples that vary the pixel module
PixelSamples ==
  { [BlankSample EXCEPT
       !.Rows = r, !.Columns = r, !.SamplesPerPixel = spp,
       !.PhotometricInterpretation = pi,
       !.BitsAllocated = b[1], !.BitsStored = b[2], !.HighBit = b[3],
       !.RedPaletteColorLookupTableDescriptor = d] :
    r \in {undefined, {512}}, spp \in {undefined, {1}, {3}},
    pi \in {"", "MONOCHROME2", "RGB", "YBR_FULL", "PALETTE COLOR"},
    b \in BitDepths, d \in {<<>>, Vec(<<256, 0, 16>>)} }

\* samples that vary the image plane: positions and orientations of the
\* right length, too short, and with a component that is not a number
GeomSamples ==
  { [BlankSample EXCEPT
       !.Rows = {512}, !.Columns = {512},
       !.ImagePositionPatient = ipp, !.ImageOrientationPatient = iop,
       !.PixelSpacing = ps, !.SliceThickness = st, !.SpacingBetweenSlices = sbs] :
    ipp \in {<<>>, Vec(<<0, 0, 0>>), Vec(<<10, 20, 30>>), Vec(<<10, 20>>),
             <<{10}, NaN, {30}>>},
    iop \in {<<>>, Vec(<<1, 0, 0, 0, 1, 0>>), Vec(<<0, 1, 0, 0, 0, 1>>),
             Vec(<<1, 0, 0>>)},
    ps \in {<<>>, Vec(<<1, 1>>), Vec(<<2>>)},
    st \in {undefined, {2}, {0}}, sbs \in {undefined, {3}} }

\* samples whose photometric interpretation is a number
ShapeSamples ==
  { [BlankSample EXCEPT
       !.PhotometricInterpretation = NumericPhotometric, !.SamplesPerPixel = spp,
       !.Rows = r, !.Columns = r] :
    spp \in {undefined, {1}, {3}}, r \in {undefined, {512}} }

\* Scenario A's sample
ScenarioASample ==
  [BlankSample EXCEPT
     !.Rows = {512}, !.Columns = {512},
     !.ImageOrientationPatient = Vec(<<1, 0, 0, 0, 1, 0>>),
     !.ImagePositionPatient = Vec(<<0, 0, 0>>),
     !.PixelSpacing = Vec(<<1, 1>>), !.SliceThickness = {2}]

SynInput(modality, sopItem, sample, index) ==
  [ displaySet |-> [ studyInstanceUID |-> "S1", seriesInstanceUID |-> "SE1",
                     modality |-> modality ],
    reference |-> mapSopItem(sopItem, <<>>),
    instance |-> mapSopItem(sopItem, <<>>),
    sample |-> sample,
    index |-> index ]

\* the sample of a series: none when the fetch failed
SampleOrNone(samples) == {{}} \cup {{x} : x \in samples}

InitSynth ==
  /\ manifest = UnreadableManifest
  /\ pc = "apply"
  /\ displaySets = <<>>
  /\ error = ""
  /\ metaMap = <<>>
  /\ cursor = 0
  /\ store = EmptyStore
  /\ registered = {}
  /\ \/ \E m \in SynModalities, h \in HintedSopItems,
          sm \in SampleOrNone(PixelSamples), i \in 0..1 :
            synIn = SynInput(m, h, sm, i)
     \/ \E m \in {"CT", "MR"}, x \in GeomSamples, i \in 0..MaxIndex :
            synIn = SynInput(m, SopItem(CT_IMAGE_STORAGE, "1.2.1", {1}), {x}, i)
     \/ \E m \in SynModalities, h \in HintedSopItems, x \in ShapeSamples :
            synIn = SynInput(m, h, {x}, 0)
  /\ synOut = NoSynOut
  /\ ExtIdle

\* if (seriesMeta && Array.isArray(ds.instances)) ds.instances.forEach(...)
SynApply ==
  /\ pc = "apply"
  /\ synIn' = IF synIn.sample = {} THEN synIn
              ELSE [synIn EXCEPT
                      !.instance = applySample(@, ValueOf(synIn.sample), synIn.index)]
  /\ pc' = "synthesize"
  /\ UNCHANGED <<manifest, displaySets, error, metaMap, cursor, store, registered, synOut>>
  /\ UNCHANGED extVars

\* synthesizeInstanceMetadata(ds, instance, {..., index: idx})
SynSynthesize ==
  /\ pc = "synthesize"
  /\ IF synthesizeThrows(synIn.displaySet, synIn.instance)
     THEN /\ synOut' = [kind |-> "TypeError"]
          /\ pc' = "threw"
          /\ UNCHANGED synIn
     ELSE /\ synOut' =
               synthesizeInstanceMetadata(synIn.displaySet, synIn.instance, synIn.index)
          /\ synIn' = [synIn EXCEPT !.instance = forceColorMR(@)]
          /\ pc' = "synthesized"
  /\ UNCHANGED <<manifest, displaySets, error, metaMap, cursor, store, registered>>
  /\ UNCHANGED extVars

NextSynth == SynApply \/ SynSynthesize

SpecSynth == InitSynth /\ [][NextSynth]_vars

\* an array of exactly n numbers
WellFormed(arr, n) == Len(arr) = n /\ IsNumeric(arr)

\* the sample of the instance under synthesis, BlankSample when there is none
SampleOf(in) == IF in.sample = {} THEN BlankSample ELSE ValueOf(in.sample)

\* the modality profile the synthesizer resolves for a series
ProfileOf(in) ==
  MODALITY_PHYSICS(toUpperCase(StrOr(in.displaySet.modality, "OT")))

\* C6: a synthesized record whose _geometryPatched flag is true has Rows and
\* Columns, an ImagePositionPatient of exactly 3 numbers, an
\* ImageOrientationPatient of exactly 6 numbers and a PixelSpacing of exactly
\* 2 numbers; a record with one of the five missing or malformed has the flag
\* false.
C6_GeometryFlagSound ==
  (pc = "synthesized" /\ synOut._geometryPatched) =>
    /\ synOut.Rows # undefined
    /\ synOut.Columns # undefined
    /\ WellFormed(synOut.ImagePositionPatient, 3)
    /\ WellFormed(synOut.ImageOrientationPatient, 6)
    /\ WellFormed(synOut.PixelSpacing, 2)

\* the slice spacing the position rule names: spacing between slices, else
\* slice thickness, else 1 (a spacing of 0 counts as not given)
SpacingRule(sm) ==
  IF Truthy(sm.SpacingBetweenSlices) THEN ValueOf(sm.SpacingBetweenSlices)
  ELSE IF Truthy(sm.SliceThickness) THEN ValueOf(sm.SliceThickness)
  ELSE 1

\* firstPosition + (rowCosines x columnCosines) * i * s, on plain numbers
PositionRule(sm, i) ==
  LET o == IF sm.ImageOrientationPatient = <<>> THEN <<1, 0, 0, 0, 1, 0>>
           ELSE [k \in 1..6 |-> ValueOf(sm.ImageOrientationPatient[k])]
      f == [k \in 1..3 |-> ValueOf(sm.ImagePositionPatient[k])]
      n == << o[2] * o[6] - o[3] * o[5],
              o[3] * o[4] - o[1] * o[6],
              o[1] * o[5] - o[2] * o[4] >>
  IN [k \in 1..3 |-> {f[k] + n[k] * i * SpacingRule(sm)}]

PhotometricChain(in) ==
  StrOr(SampleOf(in).PhotometricInterpretation,
        StrOr(ProfileOf(in).PhotometricInterpretation, "MONOCHROME2"))

C9_PixelConsistency ==
  pc = "synthesized" =>
    /\ synOut.SamplesPerPixel = {3} =>
         startsWithRGBorYBR(synOut.PhotometricInterpretation)
    /\ ( /\ synOut.SamplesPerPixel = {1}
         /\ synOut.RedPaletteColorLookupTableDescriptor # <<>>
         /\ synIn.instance.PhotometricInterpretation = "" )
       => synOut.PhotometricInterpretation = "PALETTE COLOR"

\* an instance with no photometric interpretation and no samples per pixel
\* but a palette descriptor
PaletteOnly(instance) ==
  /\ instance.PhotometricInterpretation = ""
  /\ instance.SamplesPerPixel = undefined
  /\ instance.RedPaletteColorLookupTableDescriptor # <<>>

\* C10 as stated: an instance with no PhotometricInterpretation and no
\* SamplesPerPixel but a non-empty RedPaletteColorLookupTableDescriptor is
\* synthesized with PALETTE COLOR and SamplesPerPixel 1, whatever the
\* modality of its series.
C10_PaletteAnyModality ==
  (pc = "synthesized" /\ PaletteOnly(synIn.instance)) =>
    /\ synOut.PhotometricInterpretation = "PALETTE COLOR"
    /\ synOut.SamplesPerPixel = {1}

\* C10, amended: such an instance is synthesized with PALETTE COLOR and
\* SamplesPerPixel 1 when the modality profile of its series has no default
\* SamplesPerPixel (every modality but US and SM).
C10_PaletteWithoutProfileSamples ==
  ( /\ pc = "synthesized"
    /\ PaletteOnly(synIn.instance)
    /\ synOut.Modality \notin {"US", "SM"} ) =>
    /\ synOut.PhotometricInterpretation = "PALETTE COLOR"
    /\ synOut.SamplesPerPixel = {1}

\* a palette-only instance of an MR series was synthesized as PALETTE COLOR
C10_Witness ==
  /\ pc = "synthesized"
  /\ PaletteOnly(synIn.instance)
  /\ synIn.sample # {}
  /\ synOut.Modality = "MR"
  /\ synOut.PhotometricInterpretation = "PALETTE COLOR"
  /\ synOut.SamplesPerPixel = {1}

\* the frame count of an instance reference
FrameCount(instance) ==
  OrElse(OrElse(instance.numberOfFrames, instance.NumberOfFrames), {0})

\* the condition under which the color override is said to apply to an MR
\* instance: more than one frame, a color hint, no palette descriptor
NarrowColorMR(instance) ==
  /\ ValueOf(FrameCount(instance)) > 1
  /\ \/ instance.SamplesPerPixel = {3}
     \/ startsWithRGBorYBR(instance.PhotometricInterpretation)
  /\ ~hasPaletteDescriptors(instance)

\* C11: the record of an MR instance has SamplesPerPixel 3 and
\* PhotometricInterpretation RGB forced exactly when the frame count exceeds
\* 1, samples-per-pixel is 3 or the photometric string starts with RGB/YBR,
\* and no palette descriptor is present; a single-frame MR instance, or one
\* with a palette descriptor, keeps the SamplesPerPixel and the color
\* PhotometricInterpretation that the priority chain took from the instance.
C11_ColorMROverrideNarrow ==
  (pc = "synthesized" /\ synOut.Modality = "MR") =>
    LET instance == synIn.instance
    IN /\ NarrowColorMR(instance) =>
            /\ synOut.SamplesPerPixel = {3}
            /\ synOut.PhotometricInterpretation = "RGB"
       /\ (~NarrowColorMR(instance) /\ instance.SamplesPerPixel # undefined) =>
            synOut.SamplesPerPixel = instance.SamplesPerPixel
       /\ ( /\ ~NarrowColorMR(instance)
            /\ instance.PhotometricInterpretation
                 \in {"RGB", "YBR_FULL", "PALETTE COLOR"} ) =>
            synOut.PhotometricInterpretation = instance.PhotometricInterpretation

\* C12: synthesizeInstanceMetadata returns a record and raises no error for
\* every series descriptor and instance reference, whatever optional fields
\* are missing or of unexpected shape.
C12_SynthesisAlwaysReturns ==
  (pc \notin {"apply", "synthesize"}) =>
     /\ pc = "synthesized"
     /\ "SOPInstanceUID" \in DOMAIN synOut

----------------------------------------------------------------------------
(* The manifest load: madoMetadata and retrieveMadoMetadata *)

\* a series item referencing the first k SOP instances, numbered 1..k
SeriesOf(uid, k) ==
  SeriesItem(uid, <<>>, [i \in 1..k |-> SopItem(CT_IMAGE_STORAGE, UidOrder[i], {i})])

\* Scenario A's manifest: one series of three instances
ScenarioAManifest == Manifest("S1", <<StudyItem("S1", <<SeriesOf("SE1", 3)>>)>>, <<>>)

\* manifests a load is run on: one series of 0..MaxInst instances, Scenario
\* A, two series, and manifests that cannot be loaded (unreadable, no study
\* UID, no evidence, only references lacking a UID)
LoadManifests ==
  { Manifest("S1", <<StudyItem("S1", <<SeriesOf("SE1", k)>>)>>, <<>>) : k \in 0..MaxInst }
    \cup
  { ScenarioAManifest,
    Manifest("S1",
             <<StudyItem("S1", <<SeriesOf("SE1", 1),
                                 SeriesItem("SE2", <<"https://pacs", "rs", "studies", "S1">>,
                                            <<SopItem(CT_IMAGE_STORAGE, "1.2.3", {1})>>)>>)>>,
             <<>>),
    Manifest("", <<StudyItem("S1", <<SeriesOf("SE1", 1)>>)>>, <<>>),
    Manifest("S1", <<>>, <<>>),
    Manifest("S1",
             <<StudyItem("S1", <<SeriesItem("SE1", <<>>,
                                            <<SopItem("", "1.2.1", undefined)>>)>>)>>,
             <<>>),
    UnreadableManifest }

\* samples a first-image retrieval yields
LoadSamples ==
  { ScenarioASample, BlankSample,
    [BlankSample EXCEPT !.PhotometricInterpretation = "RGB", !.NumberOfFrames = {2}],
    [BlankSample EXCEPT !.Rows = {256}, !.Columns = {256},
                        !.RedPaletteColorLookupTableDescriptor = Vec(<<256, 0, 16>>)] }

\* metadataMap.set(ds.seriesInstanceUID, meta)
MapSet(map, key, value) ==
  [k \in DOMAIN map \cup {key} |-> IF k = key THEN value ELSE map[k]]

\* prefetchSeriesFirstImages: one iteration of for (const ds of displaySets);
\* fetchAndExtractSeriesMetadata returns a sample, or null when the retrieval
\* or the parse of the buffer fails
PrefetchSeries ==
  /\ pc = "retrieve"
  /\ cursor <= Len(displaySets)
  /\ \E meta \in SampleOrNone(LoadSamples) :
       metaMap' = IF meta # {}
                  THEN MapSet(metaMap, displaySets[cursor].seriesInstanceUID,
                              ValueOf(meta))
                  ELSE metaMap
  /\ IF cursor = Len(displaySets)
     THEN pc' = "process" /\ cursor' = 1
     ELSE pc' = pc /\ cursor' = cursor + 1
  /\ UNCHANGED <<manifest, displaySets, error, store, registered, synIn, synOut>>
  /\ UNCHANGED extVars

\* synthesizeSeriesMetadata(displaySet)
synthesizeSeriesMetadata(displaySet) ==
  [ StudyInstanceUID |-> displaySet.studyInstanceUID,
    SeriesInstanceUID |-> displaySet.seriesInstanceUID,
    SeriesDate |-> displaySet.seriesDate,
    Modality |-> StrOr(displaySet.modality, "OT"),
    NumberOfSeriesRelatedInstances |-> Len(displaySet.instances) ]

\* getImageIdsForInstance({instance, frame}); getImageId, which is not part
\* of these sources, is taken to return an id naming the instance and frame
getImageIdsForInstance(instance, frame) == <<"wadors", instance.sopInstanceUID, frame>>

\* the image ids addImageIdToUIDs is called with for one instance
\* (for f = 1..numberOfFrames; the frame is undefined for a single frame)
frameRegistrations(displaySet, instance) ==
  LET numberOfFrames ==
        ValueOf(OrElse(OrElse(instance.NumberOfFrames, instance.numberOfFrames), {1}))
  IN { [ imageId |-> getImageIdsForInstance(
                       instance, IF numberOfFrames > 1 THEN {f} ELSE undefined),
         StudyInstanceUID |-> displaySet.studyInstanceUID,
         SeriesInstanceUID |-> displaySet.seriesInstanceUID,
         SOPInstanceUID |-> instance.sopInstanceUID ] : f \in 1..numberOfFrames }

\* an iteration that leaves a series without a sample out of the store
ProcessSeries_skipNoSample ==
  /\ pc = "process"
  /\ cursor <= Len(displaySets)
  /\ LET ds == displaySets[cursor]
         has == ds.seriesInstanceUID \in DOMAIN metaMap
         instances ==
           IF has
           THEN [i \in DOMAIN ds.instances |->
                   applySample(ds.instances[i], metaMap[ds.seriesInstanceUID], i - 1)]
           ELSE ds.instances
         applied == [ds EXCEPT !.instances = instances]
         synthesizedInstances ==
           [i \in DOMAIN instances |->
              synthesizeInstanceMetadata(applied, instances[i], i - 1)]
     IN /\ displaySets' = [displaySets EXCEPT ![cursor] = applied]
        /\ store' =
             IF has
             THEN [ series |-> Append(store.series, synthesizeSeriesMetadata(applied)),
                    instances |-> store.instances \o synthesizedInstances ]
             ELSE store
        /\ registered' =
             registered \cup
               UNION { frameRegistrations(applied, instances[i]) : i \in DOMAIN instances }
  /\ IF cursor = Len(displaySets)
     THEN pc' = "done" /\ cursor' = cursor
     ELSE pc' = pc /\ cursor' = cursor + 1
  /\ UNCHANGED <<manifest, error, metaMap, synIn, synOut>>
  /\ UNCHANGED extVars

\* one iteration of retrieveMadoMetadata's for (const ds of displaySets):
\* apply the sample of the series, synthesize, write the store, register
ProcessSeries ==
  /\ pc = "process"
  /\ cursor <= Len(displaySets)
  /\ LET ds == displaySets[cursor]
         has == ds.seriesInstanceUID \in DOMAIN metaMap
         instances ==
           IF has
           THEN [i \in DOMAIN ds.instances |->
                   applySample(ds.instances[i], metaMap[ds.seriesInstanceUID], i - 1)]
           ELSE ds.instances
         applied == [ds EXCEPT !.instances = instances]
         synthesizedInstances ==
           [i \in DOMAIN instances |->
              synthesizeInstanceMetadata(applied, instances[i], i - 1)]
     IN /\ displaySets' = [displaySets EXCEPT ![cursor] = applied]
        /\ store' =
             [ series |-> Append(store.series, synthesizeSeriesMetadata(applied)),
               instances |-> store.instances \o synthesizedInstances ]
        /\ registered' =
             registered \cup
               UNION { frameRegistrations(applied, instances[i]) : i \in DOMAIN instances }
  /\ IF cursor = Len(displaySets)
     THEN pc' = "done" /\ cursor' = cursor
     ELSE pc' = pc /\ cursor' = cursor + 1
  /\ UNCHANGED <<manifest, error, metaMap, synIn, synOut>>
  /\ UNCHANGED extVars

Init == InitWith(LoadManifests)

Next == FetchManifest \/ MadoParse \/ MadoValidate \/ PrefetchSeries \/ ProcessSeries

Spec == Init /\ [][Next]_vars

\* the parsed result fails validation: no series, or a series with no instances
InvalidResult(dss) == Len(dss) = 0 \/ \E i \in DOMAIN dss : Len(dss[i].instances) = 0

\* the manifest is one whose parse fails or whose parse result is invalid
LoadFails(m) == parse(m).error # "" \/ InvalidResult(parse(m).displaySets)

\* C1: a load whose parse fails, or whose parsed manifest fails validation
\* (no series, or a series with no instances), aborts with an error; no store
\* write (addSeriesMetadata, addInstances) and no image-id registration
\* happens in it.
C1_FailedLoadWritesNothing ==
  LoadFails(manifest) =>
    /\ pc \in {"fetch", "parse", "validate", "aborted"}
    /\ pc = "aborted" => error # ""
    /\ (pc = "validate" => InvalidResult(displaySets))
    /\ store = EmptyStore
    /\ registered = {}

\* a manifest whose only series references no complete instance was parsed,
\* failed validation and aborted the load with an empty store
C1_Witness ==
  /\ pc = "aborted"
  /\ error = "ValidationFailed"
  /\ manifest.StudyInstanceUID # ""
  /\ AllSeriesItems(manifest) # {}
  /\ store = EmptyStore
  /\ registered = {}

\* the series of the load for which the prefetch recorded no sample
NoSample(ds) == ds.seriesInstanceUID \notin DOMAIN metaMap

\* the store holds the series record of a descriptor
SeriesStored(ds) ==
  \E i \in DOMAIN store.series :
     store.series[i].SeriesInstanceUID = ds.seriesInstanceUID

\* the store holds an instance record of a descriptor
SomeInstanceStored(ds) ==
  \E i \in DOMAIN store.instances :
     store.instances[i].SeriesInstanceUID = ds.seriesInstanceUID

\* the store holds a record of every instance of a descriptor
InstancesStored(ds) ==
  \A j \in DOMAIN ds.instances :
     \E i \in DOMAIN store.instances :
        /\ store.instances[i].SeriesInstanceUID = ds.seriesInstanceUID
        /\ store.instances[i].SOPInstanceUID = ds.instances[j].sopInstanceUID

----------------------------------------------------------------------------
(* Extraction of the first-image sample: extractMetadataFromDicomBuffer *)

\* no load and no synthesis is under way
LoadIdle ==
  /\ manifest = UnreadableManifest
  /\ displaySets = <<>>
  /\ metaMap = <<>>
  /\ cursor = 0
  /\ store = EmptyStore
  /\ registered = {}
  /\ synIn = NoSynIn
  /\ synOut = NoSynOut

\* mapped.Rows !== undefined || mapped.Columns !== undefined ||
\* mapped.PixelSpacing !== undefined
hasCore(metadata) ==
  \/ metadata.Rows # undefined
  \/ metadata.Columns # undefined
  \/ metadata.PixelSpacing # <<>>

\* tryMapDictOrNaturalize(dict). A dict is described by what the three
\* mappers make of it: mapDictToMetadata (which may throw),
\* mapNaturalizedToMetadata of the naturalized dataset ({} when naturalizing
\* throws or gives nothing) and scanDictForCommonTags ({} when it gives null)
tryMapDictOrNaturalize(dict) ==
  IF dict.mapThrows THEN {}
  ELSE IF hasCore(dict.mapped) THEN {dict.mapped}
  ELSE IF dict.naturalized # {} /\ hasCore(ValueOf(dict.naturalized))
       THEN dict.naturalized
  ELSE dict.scanned

\* the strategies of extractMetadataFromDicomBuffer in the order of its text
Strategies ==
  <<"parseDicomDataSet", "readFile", "wrapImplicit", "wrapExplicit", "scanner">>

StrategyIndex(strategy) == CHOOSE i \in DOMAIN Strategies : Strategies[i] = strategy

\* the guard in front of a strategy: typeof DicomDict.parseDicomDataSet ===
\* 'function' for the dataset parser, isPart10 for the file reader
attempted(buffer, strategy) ==
  CASE strategy = "parseDicomDataSet" -> buffer.hasParseDicomDataSet
    [] strategy = "readFile" -> buffer.isPart10
    [] OTHER -> TRUE

\* what a strategy gives on the buffer: a structured parse gives
\* tryMapDictOrNaturalize of its dict, and nothing when the parser throws or
\* returns no dict; the scanner gives its own result
attempt(buffer, strategy) ==
  IF strategy = "scanner" THEN buffer.scanner
  ELSE IF buffer[strategy].kind = "dict"
       THEN tryMapDictOrNaturalize(buffer[strategy].dict)
       ELSE {}

\* a strategy order that leaves out the implicit-VR wrap
nextStrategy_noImplicitWrap(buffer, done) ==
  LET from == IF done = <<>> THEN 0 ELSE StrategyIndex(done[Len(done)])
      rest == { i \in DOMAIN Strategies :
                  /\ i > from
                  /\ Strategies[i] # "wrapImplicit"
                  /\ attempted(buffer, Strategies[i]) }
  IN Strategies[CHOOSE i \in rest : \A j \in rest : i <= j]

\* the strategy the function turns to after those it has attempted
nextStrategy(buffer, done) ==
  LET from == IF done = <<>> THEN 0 ELSE StrategyIndex(done[Len(done)])
      rest == { i \in DOMAIN Strategies :
                  i > from /\ attempted(buffer, Strategies[i]) }
  IN Strategies[CHOOSE i \in rest : \A j \in rest : i <= j]

\* samples a parse can yield
Core256 == [BlankSample EXCEPT !.Rows = {256}, !.Columns = {256}]
Core512 == [BlankSample EXCEPT !.Rows = {512}, !.Columns = {512}]
SpacingOnly == [BlankSample EXCEPT !.PixelSpacing = Vec(<<1, 1>>)]
NoCore == [BlankSample EXCEPT !.PhotometricInterpretation = "RGB"]

\* dicts a structured parse can return
Dicts ==
  { [mapThrows |-> FALSE, mapped |-> Core256, naturalized |-> {}, scanned |-> {}],
    [mapThrows |-> FALSE, mapped |-> NoCore, naturalized |-> {SpacingOnly},
     scanned |-> {}],
    [mapThrows |-> FALSE, mapped |-> NoCore, naturalized |-> {},
     scanned |-> {Core512}],
    [mapThrows |-> FALSE, mapped |-> NoCore, naturalized |-> {NoCore},
     scanned |-> {}],
    [mapThrows |-> TRUE, mapped |-> BlankSample, naturalized |-> {Core512},
     scanned |-> {Core512}] }

\* what a structured parser does with a buffer
ParseOutcomes ==
  {[kind |-> "throws"], [kind |-> "noDict"]} \cup {[kind |-> "dict", dict |-> d] : d \in Dicts}

\* what parseImplicitVrLittleEndianForCommonTags returns: null, or the tags
\* it found, with or without Rows, Columns or PixelSpacing among them
ScannerOutcomes == {{}, {Core512}, {NoCore}}

InitExtract ==
  /\ LoadIdle
  /\ pc = "extract"
  /\ error = ""
  /\ \E build \in BOOLEAN, part10 \in BOOLEAN,
        o0, o1, o2, o3 \in ParseOutcomes, o4 \in ScannerOutcomes :
       /\ ~build => o0 = [kind |-> "throws"]
       /\ ~part10 => o1 = [kind |-> "throws"]
       /\ arrayBuffer =
            [ kind |-> "buffer",
              hasParseDicomDataSet |-> build, isPart10 |-> part10,
              parseDicomDataSet |-> o0, readFile |-> o1,
              wrapImplicit |-> o2, wrapExplicit |-> o3, scanner |-> o4 ]
  /\ tried = <<>>
  /\ extracted = {}
  /\ MultipartIdle
  /\ PrefetchIdle
  /\ CallIdle

\* extractMetadataFromDicomBuffer, one strategy at a time: return the first
\* result, throw after the scanner has given none
ExtractAttempt ==
  /\ pc = "extract"
  /\ LET strategy == nextStrategy(arrayBuffer, tried)
         r == attempt(arrayBuffer, strategy)
     IN /\ tried' = Append(tried, strategy)
        /\ IF r # {}
           THEN extracted' = r /\ pc' = "extracted" /\ error' = error
           ELSE IF strategy = "scanner"
                THEN /\ extracted' = extracted
                     /\ pc' = "unparsable"
                     /\ error' = "Could not parse DICOM buffer"
                ELSE UNCHANGED <<extracted, pc, error>>
  /\ UNCHANGED <<arrayBuffer, loadVars, multipartVars, prefetchVars, callVars>>

NextExtract == ExtractAttempt

SpecExtract == InitExtract /\ [][NextExtract]_vars

\* a strategy is run on the buffer and yields Rows, Columns or PixelSpacing
\* (the scanner: any tag at all)
Yields(buffer, strategy) ==
  /\ attempted(buffer, strategy)
  /\ IF strategy = "scanner" THEN buffer.scanner # {}
     ELSE /\ buffer[strategy].kind = "dict"
          /\ ~buffer[strategy].dict.mapThrows
          /\ \/ hasCore(buffer[strategy].dict.mapped)
             \/ \E n \in buffer[strategy].dict.naturalized : hasCore(n)
             \/ buffer[strategy].dict.scanned # {}

\* Scenario D: a raw implicit-VR dataset, without preamble, that holds
\* Rows = 256 and Columns = 256; no parser reads it as it is
ScenarioD(buffer) ==
  /\ ~buffer.isPart10
  /\ ~buffer.hasParseDicomDataSet
  /\ buffer.wrapImplicit.kind = "dict"
  /\ ~buffer.wrapImplicit.dict.mapThrows
  /\ buffer.wrapImplicit.dict.mapped = Core256

----------------------------------------------------------------------------
(* The first part of a multipart response: extractFirstPartFromMultipart *)

\* bytes of the model
CR == 13
LF == 10
DASH == 45

\* the longest payload considered
MaxPayload == 3

\* uint8Array[i], the index counted from 0; -1 stands for undefined
byteAt(bytes, i) == IF i >= 0 /\ i < Len(bytes) THEN bytes[i + 1] ELSE -1

\* the inner loop of the boundary searches: the pattern is at offset i
matchAt(bytes, pattern, i) ==
  \A j \in 0..(Len(pattern) - 1) : byteAt(bytes, i + j) = pattern[j + 1]

\* the least element of a non-empty set of offsets
Least(offsets) == CHOOSE i \in offsets : \A j \in offsets : i <= j

\* for (let i = from; i < uint8Array.length - boundaryBytes.length; i++):
\* the first offset at which the pattern is found, -1 when there is none
firstMatch(bytes, pattern, from) ==
  LET hits == { i \in from..(Len(bytes) - Len(pattern) - 1) :
                  matchAt(bytes, pattern, i) }
  IN IF hits = {} THEN -1 ELSE Least(hits)

\* go back to skip CRLF or LF before the boundary
trimTerminator(bytes, dataEnd) ==
  IF dataEnd >= 2 /\ byteAt(bytes, dataEnd - 2) = CR /\ byteAt(bytes, dataEnd - 1) = LF
  THEN dataEnd - 2
  ELSE IF dataEnd >= 1 /\ byteAt(bytes, dataEnd - 1) = LF
       THEN dataEnd - 1
       ELSE dataEnd

\* extractFirstPartFromMultipart(arrayBuffer, contentType); the content type
\* is given by the boundary token its boundary= parameter names, <<>> when
\* the header has none
extractFirstPartFromMultipart(bytes, token) ==
  IF token = <<>> THEN {}
  ELSE
    LET boundaryBytes == <<DASH, DASH>> \o token
        found == firstMatch(bytes, boundaryBytes, 0)
        afterBoundary == IF found = -1 THEN 0 ELSE found + Len(boundaryBytes)
        startIdx ==
          IF byteAt(bytes, afterBoundary) = CR /\ byteAt(bytes, afterBoundary + 1) = LF
          THEN afterBoundary + 2
          ELSE IF byteAt(bytes, afterBoundary) = LF THEN afterBoundary + 1
               ELSE afterBoundary
        crlfcrlf(i) == matchAt(bytes, <<CR, LF, CR, LF>>, i)
        lflf(i) == matchAt(bytes, <<LF, LF>>, i)
        blanks == { i \in startIdx..(Len(bytes) - 4) : crlfcrlf(i) \/ lflf(i) }
        dataStart ==
          IF blanks = {} THEN startIdx
          ELSE IF crlfcrlf(Least(blanks)) THEN Least(blanks) + 4
               ELSE Least(blanks) + 2
        next == firstMatch(bytes, boundaryBytes, dataStart)
        dataEnd == IF next = -1 THEN Len(bytes) ELSE trimTerminator(bytes, next)
    IN IF dataEnd <= dataStart THEN {}
       ELSE {SubSeq(bytes, dataStart + 1, dataEnd)}

\* the line terminators of a body
Terminators == {<<CR, LF>>, <<LF>>}

\* payloads: every sequence of 1..MaxPayload bytes over CR, LF and a data byte
Payloads == UNION { [1..n -> {CR, LF, 88}] : n \in 1..MaxPayload }

\* the header lines of a part: one or two lines of one byte
PartHeaders(nl) == { <<72>> \o nl, <<72>> \o nl \o <<67>> \o nl }

\* what follows the next boundary: the closing dashes, or a further part
Tails == { <<DASH, DASH>>, <<DASH, DASH, CR, LF>>, <<CR, LF, 72>> }

\* the boundary token of the content type
BoundaryToken == <<120>>

\* a body made of a boundary line, part headers, a blank line, the payload,
\* one line terminator and the next boundary
MultipartBody(nl, headers, payload, tail) ==
  <<DASH, DASH>> \o BoundaryToken \o nl \o headers \o nl
    \o payload \o nl \o <<DASH, DASH>> \o BoundaryToken \o tail

InitMultipart ==
  /\ LoadIdle
  /\ ExtractIdle
  /\ pc = "multipart"
  /\ error = ""
  /\ \E nl \in Terminators, payload \in Payloads, tail \in Tails,
        token \in {BoundaryToken, <<>>} :
       \E headers \in PartHeaders(nl) :
          response = [ kind |-> "multipart",
                       body |-> MultipartBody(nl, headers, payload, tail),
                       boundary |-> token,
                       terminator |-> nl,
                       payload |-> payload ]
  /\ part = {}
  /\ PrefetchIdle
  /\ CallIdle

\* const firstPart = extractFirstPartFromMultipart(fetchedArrayBuffer, contentType)
ExtractFirstPart ==
  /\ pc = "multipart"
  /\ part' = extractFirstPartFromMultipart(response.body, response.boundary)
  /\ pc' = "parted"
  /\ UNCHANGED <<response, error, loadVars, extractVars, prefetchVars, callVars>>

NextMultipart == ExtractFirstPart

SpecMultipart == InitMultipart /\ [][NextMultipart]_vars

\* C15: for a body made of a boundary line, part headers, a blank line (CR LF
\* CR LF or LF LF), a payload, one line terminator and the next boundary,
\* extractFirstPartFromMultipart returns exactly the payload bytes, whatever
\* the payload holds, payloads that begin or end with CR or LF included.
C15_ExactPayload ==
  (pc = "parted" /\ response.boundary # <<>>) => part = {response.payload}

----------------------------------------------------------------------------
(* The concurrent first-image prefetch: prefetchSeriesFirstImages and      *)
(* fetchAndExtractSeriesMetadata                                            *)

CONCURRENCY_LIMIT == 4

\* the largest batch of series considered
MaxSeries == 5

\* the Accept headers of the three requests, in the order they are sent
AcceptVariants ==
  << "multipart/related; type=application/dicom; transfer-syntax=*",
     "multipart/related; type=\"application/dicom\"",
     "application/dicom" >>

\* wadoRoot.replace(/\/$/, ''): a URL is its sequence of path segments, and a
\* trailing slash is a last segment ""
stripTrailingSlash(url) ==
  IF url # <<>> /\ url[Len(url)] = "" THEN SubSeq(url, 1, Len(url) - 1) ELSE url

\* buildWadoRsUrl(wadoRoot, studyUID, seriesUID, sopUID)
buildWadoRsUrl(root, studyUID, seriesUID, sopUID) ==
  stripTrailingSlash(root)
    \o <<"studies", studyUID, "series", seriesUID, "instances", sopUID>>

\* a priority that puts the series-level URL in front of the override
effectiveWadoRoot_seriesFirst(displaySet, default) ==
  ArrOr(splitStudies(displaySet.retrieveURL),
        ArrOr(displaySet.instances[1].wadoRoot, default))

\* firstInstance.wadoRoot || displaySet.retrieveURL?.split('/studies')[0] || wadoRoot
effectiveWadoRoot(displaySet, default) ==
  ArrOr(displaySet.instances[1].wadoRoot,
        ArrOr(splitStudies(displaySet.retrieveURL), default))

\* the two keys under which the fetched bytes are cached
cacheKeys(root, studyUID, seriesUID, sopUID) ==
  { <<"wadors">> \o root
      \o <<"studies", studyUID, "series", seriesUID, "instances", sopUID>> \o tail :
    tail \in {<<"frames", "1">>, <<>>} }

\* the request of one rung of the ladder
request(displaySet, root, rung) ==
  [ url |-> buildWadoRsUrl(root, displaySet.studyInstanceUID,
                           displaySet.seriesInstanceUID,
                           displaySet.instances[1].sopInstanceUID),
    accept |-> AcceptVariants[rung] ]

\* a call that has not started
PendingTask ==
  [ pc |-> "pending", attempt |-> 0, root |-> <<>>, requests |-> <<>>,
    responses |-> <<>>, sample |-> {}, written |-> {} ]

\* fetchAndExtractSeriesMetadata up to its first await: null for a series
\* without instances or without a retrieval root, else the first request
launch(displaySet, default) ==
  IF Len(displaySet.instances) = 0
  THEN [PendingTask EXCEPT !.pc = "returned"]
  ELSE LET root == effectiveWadoRoot(displaySet, default)
       IN IF root = <<>>
          THEN [PendingTask EXCEPT !.pc = "returned"]
          ELSE [PendingTask EXCEPT !.pc = "fetching", !.attempt = 1, !.root = root,
                                   !.requests = <<request(displaySet, root, 1)>>]

\* a ladder that goes on to the next variant after a success
ladderNext_retryOnOk(rung, outcome) ==
  IF outcome = "reject" THEN "null"
  ELSE IF rung < 3 THEN "retry"
  ELSE IF outcome = "ok" THEN "read" ELSE "null"

\* what follows the response to request number rung: read the body after
\* response.ok, send the next variant after a non-success, return null after
\* the third non-success or when fetch rejects (the outer catch)
ladderNext(rung, outcome) ==
  IF outcome = "ok" THEN "read"
  ELSE IF outcome = "reject" THEN "null"
  ELSE IF rung < 3 THEN "retry"
  ELSE "null"

\* the call after the response to its pending request
afterResponse(displaySet, t, outcome) ==
  LET next == ladderNext(t.attempt, outcome)
      answered == [t EXCEPT !.responses = Append(@, outcome)]
  IN CASE next = "read" -> [answered EXCEPT !.pc = "reading"]
       [] next = "retry" ->
            [answered EXCEPT
               !.attempt = @ + 1,
               !.requests = Append(@, request(displaySet, t.root, t.attempt + 1))]
       [] OTHER -> [answered EXCEPT !.pc = "returned"]

\* the last index of the chunk that starts at start: the whole rest
chunkEnd_unbounded(start, n) == n

\* displaySets.slice(i, i + CONCURRENCY_LIMIT): the last index of the chunk
\* that starts at start, in a batch of n
chunkEnd(start, n) ==
  IF start + CONCURRENCY_LIMIT - 1 < n THEN start + CONCURRENCY_LIMIT - 1 ELSE n

\* a loop that awaits nothing before it starts the next chunk
currentChunk_none == {}

\* the indices of the chunk being awaited
currentChunk == IF cursor = 0 THEN {} ELSE cursor..chunkEnd(cursor, Len(displaySets))

\* a callback that goes on only when every call of its chunk has returned
mayRecord_afterAll(tasks, chunk, i) ==
  /\ tasks[i].pc = "returned"
  /\ \A j \in chunk : tasks[j].pc \in {"returned", "settled"}

\* the callback of chunk.map goes on as soon as its own call has returned
mayRecord(tasks, chunk, i) == tasks[i].pc = "returned"

\* for (const chunk of chunks): start every call of the next chunk once
\* Promise.all of the current one is fulfilled; return after the last chunk
LaunchChunk ==
  /\ pc = "prefetch"
  /\ \A i \in currentChunk : task[i].pc = "settled"
  /\ LET start == IF cursor = 0 THEN 1 ELSE cursor + CONCURRENCY_LIMIT
         end == chunkEnd(start, Len(displaySets))
     IN IF start > Len(displaySets)
        THEN pc' = "prefetched" /\ UNCHANGED <<cursor, task>>
        ELSE /\ pc' = pc
             /\ cursor' = start
             /\ task' = [i \in DOMAIN task |->
                           IF i \in start..end /\ task[i].pc = "pending"
                           THEN launch(displaySets[i], wadoRoot)
                           ELSE task[i]]
  /\ UNCHANGED <<manifest, displaySets, error, metaMap, store, registered, synIn, synOut,
                 extractVars, multipartVars, callVars,
                 wadoRoot, server, hung, prefetchedImageCache, cacheSets>>

\* the response to the pending request of series i arrives
Respond(i) ==
  /\ pc = "prefetch"
  /\ i \in DOMAIN task
  /\ task[i].pc = "fetching"
  /\ i \notin hung
  /\ \E outcome \in server[i].status[task[i].attempt] :
       task' = [task EXCEPT ![i] = afterResponse(displaySets[i], @, outcome)]
  /\ UNCHANGED <<pc, manifest, displaySets, error, metaMap, cursor, store, registered,
                 synIn, synOut, extractVars, multipartVars, callVars,
                 wadoRoot, server, hung, prefetchedImageCache, cacheSets>>

\* the body of the response of series i has been read: extract the metadata
\* (null when no strategy parses the buffer), cache the bytes under both keys
ReadBody(i) ==
  /\ pc = "prefetch"
  /\ i \in DOMAIN task
  /\ task[i].pc = "reading"
  /\ \E extractedMetadata \in server[i].parse :
       IF extractedMetadata = {}
       THEN /\ task' = [task EXCEPT ![i].pc = "returned"]
            /\ UNCHANGED <<prefetchedImageCache, cacheSets>>
       ELSE LET ds == displaySets[i]
                keys == cacheKeys(task[i].root, ds.studyInstanceUID,
                                  ds.seriesInstanceUID, ds.instances[1].sopInstanceUID)
                buffer == [url |-> task[i].requests[Len(task[i].requests)].url,
                           fetchedFor |-> i]
            IN /\ prefetchedImageCache' =
                    [k \in DOMAIN prefetchedImageCache \cup keys |->
                       IF k \in keys THEN buffer ELSE prefetchedImageCache[k]]
               /\ cacheSets' =
                    [k \in DOMAIN cacheSets \cup keys |->
                       (IF k \in DOMAIN cacheSets THEN cacheSets[k] ELSE 0)
                         + (IF k \in keys THEN 1 ELSE 0)]
               /\ task' = [task EXCEPT ![i].pc = "returned",
                                       ![i].sample = extractedMetadata,
                                       ![i].written = keys]
  /\ UNCHANGED <<pc, manifest, displaySets, error, metaMap, cursor, store, registered,
                 synIn, synOut, extractVars, multipartVars, callVars, wadoRoot, server, hung>>

\* if (metadata) metadataMap.set(ds.seriesInstanceUID, metadata)
Record(i) ==
  /\ pc = "prefetch"
  /\ i \in DOMAIN task
  /\ mayRecord(task, currentChunk, i)
  /\ metaMap' = IF task[i].sample # {}
                THEN MapSet(metaMap, displaySets[i].seriesInstanceUID,
                            ValueOf(task[i].sample))
                ELSE metaMap
  /\ task' = [task EXCEPT ![i].pc = "settled"]
  /\ UNCHANGED <<pc, manifest, displaySets, error, cursor, store, registered,
                 synIn, synOut, extractVars, multipartVars, callVars,
                 wadoRoot, server, hung, prefetchedImageCache, cacheSets>>

\* a series descriptor as the prefetch reads it
Descriptor(seriesUID, retrieveURL, override, sops) ==
  [ studyInstanceUID |-> "S1", seriesInstanceUID |-> seriesUID,
    retrieveURL |-> retrieveURL,
    instances |-> [k \in DOMAIN sops |->
                     [sopInstanceUID |-> sops[k], wadoRoot |-> override]] ]

\* a server that may answer each request with any status, or not at all, and
\* whose bytes may or may not parse
AnyServer ==
  [ status |-> [k \in 1..3 |-> {"ok", "fail", "reject"}],
    parse |-> {{}, {ScenarioASample}} ]

\* a server that answers the first request with success and parsable bytes
GoodServer == [status |-> [k \in 1..3 |-> {"ok"}], parse |-> {{ScenarioASample}}]

\* a server that answers every request with a non-success status
FailingServer == [status |-> [k \in 1..3 |-> {"fail"}], parse |-> {{}}]

\* the state of the prefetch variables at the call of prefetchSeriesFirstImages
PrefetchStart(dss, default, servers, stuck) ==
  /\ displaySets = dss
  /\ wadoRoot = default
  /\ server = servers
  /\ hung = stuck
  /\ task = [i \in DOMAIN dss |-> PendingTask]
  /\ metaMap = <<>>
  /\ cursor = 0
  /\ prefetchedImageCache = <<>>
  /\ cacheSets = <<>>
  /\ pc = "prefetch"
  /\ error = ""
  /\ manifest = UnreadableManifest
  /\ store = EmptyStore
  /\ registered = {}
  /\ synIn = NoSynIn
  /\ synOut = NoSynOut
  /\ ExtractIdle
  /\ MultipartIdle
  /\ CallIdle

\* retrieval roots: none, and roots with and without a trailing slash
OverrideRoots == {<<>>, <<"https://inst", "rs">>}
SeriesURLs ==
  { <<>>, <<"https://series", "rs", "studies", "S1", "series", "SE1">>,
    <<"studies", "S1", "series", "SE1">>, <<"https://bare", "rs">> }
DefaultRoots == {<<>>, <<"https://default", "rs">>, <<"https://default", "rs", "">>}

\* one series with every combination of roots and an arbitrary server, next
\* to a series of its own root that the server answers at once
InitFetch ==
  \E override \in OverrideRoots, url \in SeriesURLs, default \in DefaultRoots,
     sops \in {<<"1.2.1">>, <<"1.2.1", "1.2.2">>} :
    PrefetchStart(<< Descriptor("SE1", url, override, sops),
                     Descriptor("SE2", <<>>, <<"https://other", "rs">>, <<"1.2.3">>) >>,
                  default, <<AnyServer, GoodServer>>, {})

NextPrefetch ==
  \/ LaunchChunk
  \/ \E i \in 1..MaxSeries : Respond(i)
  \/ \E i \in 1..MaxSeries : ReadBody(i)
  \/ \E i \in 1..MaxSeries : Record(i)

SpecFetch == InitFetch /\ [][NextPrefetch]_vars

\* series UIDs of a batch
SeriesUIDs == <<"SE1", "SE2", "SE3", "SE4", "SE5", "SE6", "SE7", "SE8">>

\* the first SOP instance of each series of a batch
SopOf == <<"1.2.1", "1.2.2", "1.2.3", "1.2.4", "1.2.5", "1.2.6", "1.2.7", "1.2.8">>

\* batches of 1..MaxSeries series under one default root; the second
\* descriptor may repeat the first series; one series may fail every request
\* and the retrieval of one may never complete
InitPrefetch ==
  \E n \in 1..MaxSeries, repeated \in BOOLEAN, failing \in 0..2, stuck \in 0..2 :
    /\ failing <= n /\ stuck <= n /\ (repeated => n >= 2)
    /\ PrefetchStart(
         [i \in 1..n |->
            Descriptor(IF repeated /\ i = 2 THEN SeriesUIDs[1] ELSE SeriesUIDs[i],
                       <<>>, <<>>,
                       <<IF repeated /\ i = 2 THEN SopOf[1] ELSE SopOf[i]>>)],
         <<"https://default", "rs">>,
         [i \in 1..n |-> IF i = failing THEN FailingServer ELSE GoodServer],
         IF stuck = 0 THEN {} ELSE {stuck})

SpecPrefetch == InitPrefetch /\ [][NextPrefetch]_vars

\* the fair prefetch: a response that can arrive does arrive, a body that
\* can be read is read, and a continuation that can run runs; the retrieval
\* of a series in hung never completes
SpecPrefetchFair ==
  /\ SpecPrefetch
  /\ WF_vars(LaunchChunk)
  /\ \A i \in 1..MaxSeries :
        WF_vars(Respond(i)) /\ WF_vars(ReadBody(i)) /\ WF_vars(Record(i))

----------------------------------------------------------------------------
(* Properties of the prefetch *)

\* the root the priority rule gives a series: the first instance's override,
\* else the part of the series-level URL in front of "studies", else the
\* global default
PriorityRoot(ds, default) ==
  LET firstInstance == Head(ds.instances)
      k == CHOOSE n \in 0..Len(ds.retrieveURL) :
             /\ \A j \in 1..n : ds.retrieveURL[j] # "studies"
             /\ (n < Len(ds.retrieveURL) => ds.retrieveURL[n + 1] = "studies")
      prefix == SubSeq(ds.retrieveURL, 1, k)
  IN IF firstInstance.wadoRoot # <<>> THEN firstInstance.wadoRoot
     ELSE IF prefix # <<>> THEN prefix
     ELSE default

\* the path of the first instance of a series under a root
FirstInstancePath(ds) ==
  << "studies", ds.studyInstanceUID, "series", ds.seriesInstanceUID,
     "instances", Head(ds.instances).sopInstanceUID >>

\* the second series of the two-series batch went through untouched
OtherSeriesServed ==
  /\ task[2].pc # "pending" =>
        task[2].requests[1].url = <<"https://other", "rs">> \o FirstInstancePath(displaySets[2])
  /\ pc = "prefetched" =>
        /\ "SE2" \in DOMAIN metaMap
        /\ metaMap["SE2"] = ScenarioASample

\* C16: the retrieval root used for a series is the first instance's
\* override if non-empty, else the prefix of the series-level retrieve URL
\* before '/studies' if non-empty, else the global default; when all three
\* are empty the series issues no request and yields no sample, and the other
\* series of the batch is served as usual.
C16_RootPriority ==
  /\ \A i \in DOMAIN task :
        task[i].pc # "pending" =>
          LET ds == displaySets[i]
              root == PriorityRoot(ds, wadoRoot)
          IN IF root = <<>>
             THEN /\ task[i].requests = <<>>
                  /\ task[i].sample = {}
                  /\ task[i].written = {}
                  /\ ds.seriesInstanceUID \notin DOMAIN metaMap
             ELSE /\ task[i].requests # <<>>
                  /\ \A k \in DOMAIN task[i].requests :
                        \/ task[i].requests[k].url = root \o FirstInstancePath(ds)
                        \/ /\ root[Len(root)] = ""
                           /\ task[i].requests[k].url =
                                SubSeq(root, 1, Len(root) - 1) \o FirstInstancePath(ds)
  /\ OtherSeriesServed

\* a series without an override was fetched from the prefix of its
\* series-level URL although a global default exists, and its sample recorded
C16_Witness ==
  /\ pc = "prefetched"
  /\ displaySets[1].instances[1].wadoRoot = <<>>
  /\ wadoRoot # <<>>
  /\ task[1].requests[1].url = <<"https://series", "rs">> \o FirstInstancePath(displaySets[1])
  /\ "SE1" \in DOMAIN metaMap
  /\ "SE2" \in DOMAIN metaMap

\* C17: for one series requests are sent only for the first instance, in the
\* fixed order of the three Accept variants; variant k+1 is sent only if
\* variants 1..k all returned a non-success status; no request follows a
\* success; and when all three return non-success the series yields no sample
\* and no error reaches the rest of the batch.
C17_AcceptLadder ==
  /\ error = ""
  /\ \A i \in DOMAIN task :
        LET t == task[i]
            ds == displaySets[i]
        IN /\ Len(t.requests) <= 3
           /\ \A k \in DOMAIN t.requests :
                 /\ t.requests[k].accept = AcceptVariants[k]
                 /\ t.requests[k].url[Len(t.requests[k].url)] =
                      Head(ds.instances).sopInstanceUID
                 /\ \A j \in 1..(k - 1) : t.responses[j] = "fail"
           /\ \A j \in DOMAIN t.responses :
                 t.responses[j] = "ok" => j = Len(t.requests)
           /\ t.responses = <<"fail", "fail", "fail">> =>
                 /\ t.pc \in {"returned", "settled"}
                 /\ t.sample = {}
                 /\ ds.seriesInstanceUID \notin DOMAIN metaMap
  /\ OtherSeriesServed

\* all three variants were refused for the first series, in order, and the
\* batch ended with the sample of the second series only
C17_Witness ==
  /\ pc = "prefetched"
  /\ task[1].responses = <<"fail", "fail", "fail">>
  /\ Len(task[1].requests) = 3
  /\ task[1].requests[3].accept = "application/dicom"
  /\ DOMAIN metaMap = {"SE2"}

\* the call for series i has started and its callback has not finished
InFlight(i) == i \in DOMAIN task /\ task[i].pc \in {"fetching", "reading", "returned"}

\* C18: at every moment during prefetchSeriesFirstImages at most 4 series
\* have a prefetch operation in progress, whatever the number of series and
\* the interleaving of their completions.
C18_AtMostFourInFlight ==
  Cardinality({i \in DOMAIN task : InFlight(i)}) <= CONCURRENCY_LIMIT

\* four series of a batch of more than four are in flight and the next one
\* has not started
C18_Witness ==
  /\ Len(displaySets) > CONCURRENCY_LIMIT
  /\ Cardinality({i \in DOMAIN task : InFlight(i)}) = CONCURRENCY_LIMIT
  /\ task[CONCURRENCY_LIMIT + 1].pc = "pending"

\* series i has finished: its callback ran, and if the server answers with
\* parsable bytes its bytes are cached and its sample is recorded
Completed(i) ==
  /\ i \in DOMAIN task
  /\ task[i].pc = "settled"
  /\ server[i] = GoodServer =>
        /\ task[i].written # {}
        /\ task[i].written \subseteq DOMAIN prefetchedImageCache
        /\ displaySets[i].seriesInstanceUID \in DOMAIN metaMap

\* C19: if the retrieval of one series never completes, every other series
\* that is in flight at the same time still completes its own fetch, extract
\* and cache steps and has its sample recorded.
C19_OthersCompleteBesideHung ==
  \A i \in 1..MaxSeries :
     (hung # {} /\ i \notin hung /\ InFlight(i)) ~> Completed(i)

\* the first series is still waiting for its response while the second has
\* cached its bytes and recorded its sample
C19_Witness ==
  /\ hung = {1}
  /\ task[1].pc = "fetching"
  /\ Len(displaySets) >= 2
  /\ displaySets[2].seriesInstanceUID = "SE2"
  /\ Completed(2)
  /\ "SE2" \in DOMAIN metaMap

\* C20: during one load no key of the prefetched-bytes cache is written a
\* second time or removed once cached, and the key sets written for two
\* different series descriptors of the batch are disjoint, under every
\* interleaving of the concurrent series operations.
C20_CacheAppendOnlyDisjoint ==
  /\ \A k \in DOMAIN cacheSets : cacheSets[k] <= 1
  /\ DOMAIN cacheSets = DOMAIN prefetchedImageCache
  /\ \A i, j \in DOMAIN task :
        i # j => task[i].written \cap task[j].written = {}

----------------------------------------------------------------------------
(* getWADORSImageId *)

\* base.replace(/\/+$/, ''): a URL without its trailing slashes
RECURSIVE stripTrailingSlashes(_)
stripTrailingSlashes(url) ==
  IF url # <<>> /\ url[Len(url)] = ""
  THEN stripTrailingSlashes(SubSeq(url, 1, Len(url) - 1))
  ELSE url

\* the text of a frame number inside a template string
FrameText(n) == <<"1", "2", "3">>[n]

\* buildInstanceWadoRsUri(instance, config): <<>> stands for null
buildInstanceWadoRsUri(instance, config) ==
  LET StudyInstanceUID ==
        StrOr(instance.StudyInstanceUID,
              StrOr(instance.studyInstanceUID, instance.StudyInstanceUid))
      SeriesInstanceUID ==
        StrOr(instance.SeriesInstanceUID,
              StrOr(instance.seriesInstanceUID, instance.SeriesInstanceUid))
      SOPInstanceUID ==
        StrOr(instance.SOPInstanceUID,
              StrOr(instance.sopInstanceUID, instance.SOPInstanceUid))
      base == stripTrailingSlashes(config.wadoRoot)
  IN IF base = <<>> \/ StudyInstanceUID = "" \/ SeriesInstanceUID = ""
        \/ SOPInstanceUID = ""
     THEN <<>>
     ELSE base \o << "studies", StudyInstanceUID, "series", SeriesInstanceUID,
                     "instances", SOPInstanceUID >>

\* buildInstanceFrameWadoRsUri(instance, config, frame): the template string
\* `${baseWadoRsUri}/frames/${frame}`, in which null reads "null"
buildInstanceFrameWadoRsUri(instance, config, frame) ==
  LET baseWadoRsUri == buildInstanceWadoRsUri(instance, config)
      f == ValueOf(OrElse(frame, {1}))
  IN (IF baseWadoRsUri = <<>> THEN <<"null">> ELSE baseWadoRsUri)
       \o <<"frames", FrameText(f)>>

\* getWADORSImageId(instance, config, frame)
getWADORSImageId(instance, config, frame) ==
  LET uri == buildInstanceFrameWadoRsUri(instance, config, frame)
  IN IF uri = <<>>
     THEN [kind |-> "undefined"]
     ELSE [kind |-> "imageId", imageId |-> <<"wadors">> \o uri]

\* an instance object without any UID property
BlankUids ==
  [ StudyInstanceUID |-> "", studyInstanceUID |-> "", StudyInstanceUid |-> "",
    SeriesInstanceUID |-> "", seriesInstanceUID |-> "", SeriesInstanceUid |-> "",
    SOPInstanceUID |-> "", sopInstanceUID |-> "", SOPInstanceUid |-> "" ]

\* the spellings under which an instance object may carry each UID
StudyKeys == {"StudyInstanceUID", "studyInstanceUID", "StudyInstanceUid"}
SeriesKeys == {"SeriesInstanceUID", "seriesInstanceUID", "SeriesInstanceUid"}
SopKeys == {"SOPInstanceUID", "sopInstanceUID", "SOPInstanceUid"}

\* an instance object carrying each UID under the given spellings
UidsUnder(studyKeys, seriesKeys, sopKeys) ==
  [k \in DOMAIN BlankUids |->
     IF k \in studyKeys THEN "S1"
     ELSE IF k \in seriesKeys THEN "SE1"
     ELSE IF k \in sopKeys THEN "1.2.1"
     ELSE ""]

\* at most one spelling of a UID
AtMostOne(keys) == {{}} \cup {{k} : k \in keys}

\* WADO roots of a configuration: none, "/", and a root followed by no, one
\* or two slashes
ConfigRoots ==
  { <<>>, <<"", "">>, <<"https://pacs", "rs">>, <<"https://pacs", "rs", "">>,
    <<"https://pacs", "rs", "", "">> }

\* frame arguments: undefined, 0 and frame numbers
FrameArgs == {undefined, {0}, {1}, {2}}

InitImageId ==
  /\ \E st \in AtMostOne(StudyKeys), se \in AtMostOne(SeriesKeys),
        so \in AtMostOne(SopKeys), root \in ConfigRoots, frame \in FrameArgs :
       call = [ fn |-> "getWADORSImageId", instance |-> UidsUnder(st, se, so),
                config |-> [wadoRoot |-> root], frame |-> frame ]
  /\ returned = [kind |-> "none"]
  /\ pc = "call"
  /\ error = ""
  /\ LoadIdle
  /\ ExtractIdle
  /\ MultipartIdle
  /\ PrefetchIdle

\* the call of getWADORSImageId
GetImageId ==
  /\ pc = "call"
  /\ call.fn = "getWADORSImageId"
  /\ returned' = getWADORSImageId(call.instance, call.config, call.frame)
  /\ pc' = "returned"
  /\ UNCHANGED <<call, error, loadVars, extractVars, multipartVars, prefetchVars>>

NextImageId == GetImageId

SpecImageId == InitImageId /\ [][NextImageId]_vars

\* a component of the identifier is missing from the call: the root is empty
\* or slashes only, or one of the three UIDs is under none of its spellings
ComponentMissing ==
  \/ stripTrailingSlashes(call.config.wadoRoot) = <<>>
  \/ \A k \in StudyKeys : call.instance[k] = ""
  \/ \A k \in SeriesKeys : call.instance[k] = ""
  \/ \A k \in SopKeys : call.instance[k] = ""

\* C29: getWADORSImageId returns undefined whenever the WADO root or one of
\* the study, series or SOP instance UIDs is missing, and every identifier it
\* returns is 'wadors:<root>/studies/<study>/series/<series>/instances/<sop>/
\* frames/<n>' built from the components of the call.
C29_NoIdFromMissingComponent ==
  (pc = "returned" /\ call.fn = "getWADORSImageId") =>
     IF ComponentMissing
     THEN returned = [kind |-> "undefined"]
     ELSE /\ returned.kind = "imageId"
          /\ returned.imageId =
               <<"wadors">> \o stripTrailingSlashes(call.config.wadoRoot)
                 \o << "studies", "S1", "series", "SE1", "instances", "1.2.1",
                       "frames", FrameText(ValueOf(OrElse(call.frame, {1}))) >>

\* C21: a key under which the prefetch caches the bytes of a series' first
\* instance equals the image id getWADORSImageId builds for that instance
\* under the root the series was retrieved from, with or without a trailing
\* slash, so a lookup by image id finds the cached bytes.
C21_CacheKeyIsImageId ==
  \A i \in DOMAIN task :
     task[i].written # {} =>
        LET ds == displaySets[i]
            id == getWADORSImageId(
                    [BlankUids EXCEPT !.StudyInstanceUID = ds.studyInstanceUID,
                                      !.SeriesInstanceUID = ds.seriesInstanceUID,
                                      !.SOPInstanceUID = ds.instances[1].sopInstanceUID],
                    [wadoRoot |-> task[i].root], undefined)
        IN /\ id.kind = "imageId"
           /\ id.imageId \in task[i].written
           /\ id.imageId \in DOMAIN prefetchedImageCache

----------------------------------------------------------------------------
(* Properties of the stage order of a load *)

\* the synthesis loop has gone through series k
SeriesSynthesized(k) == pc = "done" \/ (pc = "process" /\ cursor > k)

\* C22: in one manifest load the stages run strictly in the order parse,
\* prefetch, synthesize, store: nothing is prefetched before parsing and
\* validation have finished, nothing is synthesized before the prefetch of
\* every series has finished, and nothing is written to the store before
\* the synthesis of every series has finished.
C22_StrictStageOrder ==
  /\ pc \in {"fetch", "parse", "validate", "aborted"} =>
        metaMap = <<>> /\ store = EmptyStore /\ registered = {}
  /\ pc = "retrieve" => store = EmptyStore /\ registered = {}
  /\ store # EmptyStore => \A k \in DOMAIN displaySets : SeriesSynthesized(k)

----------------------------------------------------------------------------
(* The content sequence of a manifest *)

\* the IMAGE items of an image-library group: none, one numbering instance
\* 1.2.1, or two that reverse the order of the referenced-SOP items
GroupImages ==
  { <<>>,
    << [uid |-> "1.2.1", numText |-> "7"] >>,
    << [uid |-> "1.2.2", numText |-> "1"], [uid |-> "1.2.1", numText |-> "03"] >> }

\* image-library groups naming series SE1, each series field present or
\* absent, and a group naming another series
ContentGroups ==
  { [ seriesUID |-> "SE1", seriesDate |-> d, seriesTime |-> t, seriesNumber |-> n,
      images |-> im ] :
    d \in {"", "20240202"}, t \in {"", "120000"}, n \in {"", "5"},
    im \in GroupImages }
    \cup
  { [ seriesUID |-> "SE2", seriesDate |-> "20240303", seriesTime |-> "130000",
      seriesNumber |-> "6", images |-> << [uid |-> "1.2.1", numText |-> "2"] >> ] }

\* the most groups a content sequence holds
MaxGroups == 2

\* one series whose referenced-SOP items carry the instance numbers 1 and 2,
\* under every content sequence of up to MaxGroups groups
ContentManifests ==
  { Manifest("S1",
             << StudyItem("S1",
                  << SeriesItem("SE1", <<>>,
                       << SopItem(CT_IMAGE_STORAGE, "1.2.1", {1}),
                          SopItem(CT_IMAGE_STORAGE, "1.2.2", {2}) >>) >>) >>,
             c) : c \in SeqsUpTo(ContentGroups, MaxGroups) }

InitContent == InitWith(ContentManifests)

SpecContent == InitContent /\ [][NextParse]_vars

\* the values the content sequence carries for a series field
CarriedField(m, seriesUID, field) ==
  { m.ContentSequence[g][field] :
      g \in { h \in DOMAIN m.ContentSequence :
                /\ m.ContentSequence[h].seriesUID = seriesUID
                /\ m.ContentSequence[h][field] # "" } }

\* the instance numbers the content sequence carries for an instance
CarriedNumbers(m, seriesUID, sopUID) ==
  UNION { { parseInt(m.ContentSequence[g].images[k].numText) :
              k \in { j \in DOMAIN m.ContentSequence[g].images :
                        m.ContentSequence[g].images[j].uid = sopUID } } :
          g \in { h \in DOMAIN m.ContentSequence :
                    m.ContentSequence[h].seriesUID = seriesUID } }

\* C24: when the content sequence carries an instance number (ddd008) for an
\* instance, or a series date, time or number (ddd003, ddd004, ddd005) for a
\* series, the descriptor holds that value rather than the InstanceNumber of
\* the referenced-SOP item or the study-level date and time, and the
\* instances are ordered by the numbers they then hold.
C24_ContentSequenceTakesPriority ==
  (Parsed /\ error = "") =>
     \A d \in DOMAIN displaySets :
        LET ds == displaySets[d]
            carried(field) == CarriedField(manifest, ds.seriesInstanceUID, field)
        IN /\ carried("seriesDate") # {} => ds.seriesDate \in carried("seriesDate")
           /\ carried("seriesTime") # {} => ds.seriesTime \in carried("seriesTime")
           /\ carried("seriesNumber") # {} => ds.seriesNumber \in carried("seriesNumber")
           /\ \A i \in DOMAIN ds.instances :
                 LET numbers == CarriedNumbers(manifest, ds.seriesInstanceUID,
                                               ds.instances[i].sopInstanceUID)
                 IN numbers # {} =>
                      /\ ds.instances[i].instanceNumber # undefined
                      /\ ValueOf(ds.instances[i].instanceNumber) \in numbers
           /\ \A i, j \in DOMAIN ds.instances :
                 i < j => sortKey(ds.instances[i]) <= sortKey(ds.instances[j])

----------------------------------------------------------------------------
(* Series items without a SeriesInstanceUID *)

\* a sequence without its k-th element
RemoveAt(seq, k) == SubSeq(seq, 1, k - 1) \o SubSeq(seq, k + 1, Len(seq))

\* the manifest without series item se of study item st
WithoutSeriesItem(m, st, se) ==
  [m EXCEPT !.EvidenceSequence[st].ReferencedSeriesSequence = RemoveAt(@, se)]

\* the series items of a manifest that lack a SeriesInstanceUID
UidlessSeriesItems(m) ==
  { p \in AllSeriesItems(m) :
      m.EvidenceSequence[p[1]].ReferencedSeriesSequence[p[2]].SeriesInstanceUID = "" }

\* C25: a referenced-series item without a SeriesInstanceUID is skipped
\* without raising: parse returns exactly the descriptors it returns for the
\* same manifest with that item removed, and raises only if it raises for
\* that manifest too.
C25_UidlessSeriesSkipped ==
  (pc \notin {"fetch", "parse"} /\ error # "FetchFailed") =>
     \A p \in UidlessSeriesItems(manifest) :
        LET without == parse(WithoutSeriesItem(manifest, p[1], p[2]))
        IN /\ displaySets = without.displaySets
           /\ (error \notin {"", "ValidationFailed"}) => error = without.error
           /\ \A d \in DOMAIN displaySets : displaySets[d].seriesInstanceUID # ""

\* of two series items with complete references the first lacks a
\* SeriesInstanceUID: parse returned the descriptor of the second only
C25_Witness ==
  /\ pc = "retrieve"
  /\ error = ""
  /\ Len(manifest.EvidenceSequence) = 1
  /\ Len(manifest.EvidenceSequence[1].ReferencedSeriesSequence) = 2
  /\ UidlessSeriesItems(manifest) = {<<1, 1>>}
  /\ filterValid([i \in DOMAIN manifest.EvidenceSequence[1].ReferencedSeriesSequence[1].ReferencedSOPSequence |->
                    mapSopItem(manifest.EvidenceSequence[1].ReferencedSeriesSequence[1].ReferencedSOPSequence[i], <<>>)]) # <<>>
  /\ Len(displaySets) = 1
  /\ displaySets[1].seriesInstanceUID = "SE2"

----------------------------------------------------------------------------
(* The byte-level scanner: parseImplicitVrLittleEndianForCommonTags *)

\* the value of an expression, evaluated once
TheOnly(set) == CHOOSE value \in set : TRUE

\* DataView getters, little-endian; a byte outside the buffer reads as -1
getUint8(bytes, o) == byteAt(bytes, o)
getUint16(bytes, o) == byteAt(bytes, o) + 256 * byteAt(bytes, o + 1)
getUint32(bytes, o) ==
  byteAt(bytes, o) + 256 * byteAt(bytes, o + 1) + 65536 * byteAt(bytes, o + 2)
    + 16777216 * byteAt(bytes, o + 3)

\* the characters String.prototype.trim removes, among the char codes 0..255
Whitespace == {9, 10, 11, 12, 13, 32, 160}

RECURSIVE trimStart(_)
trimStart(str) ==
  IF str # <<>> /\ Head(str) \in Whitespace THEN trimStart(Tail(str)) ELSE str

RECURSIVE trimEnd(_)
trimEnd(str) ==
  IF str # <<>> /\ str[Len(str)] \in Whitespace
  THEN trimEnd(SubSeq(str, 1, Len(str) - 1)) ELSE str

trim(str) == trimEnd(trimStart(str))

\* the characters of a string in front of its first occurrence of a code
RECURSIVE upTo(_, _)
upTo(str, code) ==
  IF str = <<>> \/ Head(str) = code THEN <<>>
  ELSE <<Head(str)>> \o upTo(Tail(str), code)

\* readString(start, length): the bytes of the value, clamped to the buffer,
\* up to the first NUL, as char codes, trimmed
readString(bytes, start, length) ==
  LET n == IF length < Len(bytes) - start THEN length ELSE Len(bytes) - start
      count == IF n < 0 THEN 0 ELSE n
  IN TheOnly({ trimEnd(text) :
               text \in { trimStart(chars) :
                          chars \in {upTo(SubSeq(bytes, start + 1, start + count), 0)} } })

\* readWords(start, length): floor(length / 2) 16-bit words
readWords(bytes, start, length) ==
  [i \in 1..(length \div 2) |-> getUint16(bytes, start + 2 * (i - 1))]

Digits == 48..57

\* the leading decimal digits of a string
RECURSIVE leadingDigits(_)
leadingDigits(str) ==
  IF str # <<>> /\ Head(str) \in Digits
  THEN <<Head(str)>> \o leadingDigits(Tail(str)) ELSE <<>>

\* the number a string of decimal digits denotes
RECURSIVE decimal(_)
decimal(digits) ==
  IF digits = <<>> THEN 0
  ELSE 10 * decimal(SubSeq(digits, 1, Len(digits) - 1)) + (digits[Len(digits)] - 48)

\* parseInt(raw, 10) on a string of char codes: NaN unless the string
\* starts, after an optional sign, with a digit
parseIntAscii(raw) ==
  LET signed == raw # <<>> /\ Head(raw) \in {43, 45}
      digits == leadingDigits(IF signed THEN Tail(raw) ELSE raw)
  IN IF digits = <<>> THEN NaN
     ELSE IF signed /\ Head(raw) = 45 THEN {0 - decimal(digits)}
     ELSE {decimal(digits)}

\* the numeral parseFloat reads at the start of a string: an optional sign,
\* digits, and a fraction; <<>> when the string starts with no number
floatNumeral(str) ==
  LET signed == str # <<>> /\ Head(str) \in {43, 45}
      rest == IF signed THEN Tail(str) ELSE str
      whole == leadingDigits(rest)
      after == SubSeq(rest, Len(whole) + 1, Len(rest))
      fraction == IF after # <<>> /\ Head(after) = 46
                  THEN leadingDigits(Tail(after)) ELSE <<>>
  IN IF whole = <<>> /\ fraction = <<>> THEN <<>>
     ELSE (IF signed /\ Head(str) = 45 THEN <<45>> ELSE <<>>) \o whole
            \o (IF fraction # <<>> THEN <<46>> \o fraction ELSE <<>>)

\* parseFloat(raw): the numeral read, NaN when there is none
parseFloat(raw) == IF floatNumeral(trimStart(raw)) = <<>> THEN NaN
                   ELSE {floatNumeral(trimStart(raw))}

\* raw.split('\\')
RECURSIVE split(_, _)
split(str, sep) ==
  LET first == upTo(str, sep)
  IN IF Len(first) = Len(str) THEN <<str>>
     ELSE <<first>> \o split(SubSeq(str, Len(first) + 2, Len(str)), sep)

\* toNumberArray(raw): the finite numbers among the parts, undefined (<<>>)
\* when raw is empty or holds no number
toNumberArray(raw) ==
  IF raw = <<>> THEN <<>>
  ELSE TheOnly({
         TheOnly({ SelectSeq([i \in DOMAIN parts |-> parseFloat(parts[i])],
                             LAMBDA x : x # NaN)
                   : parts \in {SelectSeq([i \in DOMAIN pieces |-> trim(pieces[i])],
                                          LAMBDA q : q # <<>>)} })
         : pieces \in {split(raw, 92)} })

\* isAsciiLetters(b1, b2)
isLetter(b) == (b >= 65 /\ b <= 90) \/ (b >= 97 /\ b <= 122)
isAsciiLetters(b1, b2) == isLetter(b1) /\ isLetter(b2)

\* the value representations with two reserved bytes and a 32-bit length:
\* OB, OD, OF, OL, OW, SQ, UC, UR, UT, UN
longVRs ==
  { <<79, 66>>, <<79, 68>>, <<79, 70>>, <<79, 76>>, <<79, 87>>, <<83, 81>>,
    <<85, 67>>, <<85, 82>>, <<85, 84>>, <<85, 78>> }

\* a length test that lets every length through
overruns_never(offset, valueLength, len) == FALSE

\* if (valueLength < 0 || offset + valueLength > len) break
overruns(offset, valueLength, len) == valueLength < 0 \/ offset + valueLength > len

\* the header of the element at an offset: its tag (group, element), where
\* its value starts, the length it declares, the highest offset a getter
\* read, and whether one of the breaks in front of the switch was taken
elementHeader(bytes, offset) ==
  LET len == Len(bytes)
      tag == <<getUint16(bytes, offset), getUint16(bytes, offset + 2)>>
      o1 == offset + 4
      explicit == /\ o1 + 2 <= len
                  /\ isAsciiLetters(getUint8(bytes, o1), getUint8(bytes, o1 + 1))
      vr == <<getUint8(bytes, o1), getUint8(bytes, o1 + 1)>>
      none == [tag |-> tag, broke |-> TRUE, valueOffset |-> o1, valueLength |-> 0,
               highest |-> offset + 3]
  IN IF o1 + 4 > len THEN none
     ELSE IF explicit /\ vr \in longVRs
     THEN IF o1 + 4 + 4 > len
          THEN [none EXCEPT !.valueOffset = o1 + 4, !.highest = o1 + 1]
          ELSE [ tag |-> tag, valueOffset |-> o1 + 8,
                 valueLength |-> getUint32(bytes, o1 + 4), highest |-> o1 + 7,
                 broke |-> overruns(o1 + 8, getUint32(bytes, o1 + 4), len) ]
     ELSE IF explicit
     THEN IF o1 + 2 + 2 > len
          THEN [none EXCEPT !.valueOffset = o1 + 2, !.highest = o1 + 1]
          ELSE [ tag |-> tag, valueOffset |-> o1 + 4,
                 valueLength |-> getUint16(bytes, o1 + 2), highest |-> o1 + 3,
                 broke |-> overruns(o1 + 4, getUint16(bytes, o1 + 2), len) ]
     ELSE [ tag |-> tag, valueOffset |-> o1 + 4,
            valueLength |-> getUint32(bytes, o1), highest |-> o1 + 3,
            broke |-> overruns(o1 + 4, getUint32(bytes, o1), len) ]

\* the cases of switch (tag): the key set and the conversion applied
TagTable ==
  { [tag |-> <<40, 16>>, key |-> "Rows", fn |-> "parseInt"],
    [tag |-> <<40, 17>>, key |-> "Columns", fn |-> "parseInt"],
    [tag |-> <<40, 2>>, key |-> "SamplesPerPixel", fn |-> "parseInt"],
    [tag |-> <<40, 4>>, key |-> "PhotometricInterpretation", fn |-> "raw"],
    [tag |-> <<40, 48>>, key |-> "PixelSpacing", fn |-> "toNumberArray"],
    [tag |-> <<32, 55>>, key |-> "ImageOrientationPatient", fn |-> "toNumberArray"],
    [tag |-> <<32, 50>>, key |-> "ImagePositionPatient", fn |-> "toNumberArray"],
    [tag |-> <<24, 80>>, key |-> "SliceThickness", fn |-> "parseFloat"],
    [tag |-> <<24, 136>>, key |-> "SpacingBetweenSlices", fn |-> "parseFloat"],
    [tag |-> <<40, 4176>>, key |-> "WindowCenter", fn |-> "window"],
    [tag |-> <<40, 4177>>, key |-> "WindowWidth", fn |-> "window"],
    [tag |-> <<40, 4178>>, key |-> "RescaleIntercept", fn |-> "parseFloat"],
    [tag |-> <<40, 4179>>, key |-> "RescaleSlope", fn |-> "parseFloat"],
    [tag |-> <<40, 8>>, key |-> "NumberOfFrames", fn |-> "parseInt"],
    [tag |-> <<32, 82>>, key |-> "FrameOfReferenceUID", fn |-> "raw"],
    [tag |-> <<40, 4353>>, key |-> "RedPaletteColorLookupTableDescriptor", fn |-> "readWords"],
    [tag |-> <<40, 4354>>, key |-> "GreenPaletteColorLookupTableDescriptor", fn |-> "readWords"],
    [tag |-> <<40, 4355>>, key |-> "BluePaletteColorLookupTableDescriptor", fn |-> "readWords"],
    [tag |-> <<40, 4609>>, key |-> "RedPaletteColorLookupTableData", fn |-> "readWords"],
    [tag |-> <<40, 4610>>, key |-> "GreenPaletteColorLookupTableData", fn |-> "readWords"],
    [tag |-> <<40, 4611>>, key |-> "BluePaletteColorLookupTableData", fn |-> "readWords"],
    [tag |-> <<40, 4641>>, key |-> "SegmentedRedPaletteColorLookupTableData", fn |-> "readWords"],
    [tag |-> <<40, 4642>>, key |-> "SegmentedGreenPaletteColorLookupTableData", fn |-> "readWords"],
    [tag |-> <<40, 4643>>, key |-> "SegmentedBluePaletteColorLookupTableData", fn |-> "readWords"],
    [tag |-> <<40, 4505>>, key |-> "PaletteColorLookupTableUID", fn |-> "raw"] }

Whitelisted(tag) == \E c \in TagTable : c.tag = tag
CaseOf(tag) == CHOOSE c \in TagTable : c.tag = tag

\* the value a case stores; each value is tagged with its JavaScript type
converted(fn, bytes, start, length) ==
  TheOnly({ CASE fn = "parseInt" -> [number |-> parseIntAscii(raw)]
              [] fn = "parseFloat" -> [float |-> parseFloat(raw)]
              [] fn = "raw" -> [string |-> raw]
              [] fn = "readWords" -> [words |-> readWords(bytes, start, length)]
              [] OTHER -> [array |-> toNumberArray(raw)]
            : raw \in {readString(bytes, start, length)} })

\* switch (tag) { ... }: the metadata after the element's case has run
assign(metadata, bytes, header) ==
  IF ~Whitelisted(header.tag) THEN metadata
  ELSE TheOnly({
         IF c.fn = "window"
         THEN IF v.array = <<>> THEN metadata
              ELSE (c.key :> (IF Len(v.array) = 1 THEN [float |-> v.array[1]] ELSE v))
                     @@ metadata
         ELSE (c.key :> v) @@ metadata
         : c \in {CaseOf(header.tag)},
           v \in {converted(CaseOf(header.tag).fn, bytes,
                            header.valueOffset, header.valueLength)} })

\* the highest offset the case of an element reads: readWords reads every
\* word of the declared length, readString only what the buffer holds
highestValueRead(bytes, header) ==
  IF Whitelisted(header.tag) /\ CaseOf(header.tag).fn = "readWords"
  THEN header.valueOffset + 2 * (header.valueLength \div 2) - 1
  ELSE IF header.valueOffset + header.valueLength <= Len(bytes)
       THEN header.valueOffset + header.valueLength - 1
       ELSE Len(bytes) - 1

Max(a, b) == IF a >= b THEN a ELSE b

\* the little-endian bytes of a 16-bit and of a 32-bit unsigned integer
u16(n) == <<n % 256, n \div 256>>
u32(n) == <<n % 256, (n \div 256) % 256, (n \div 65536) % 256, n \div 16777216>>

\* the bytes of a data element: explicit VR with a 16-bit length, explicit VR
\* with reserved bytes and a 32-bit length, or implicit VR
encode(e) ==
  u16(e.tag[1]) \o u16(e.tag[2]) \o
    (CASE e.enc = "short" -> e.vr \o u16(e.declared)
       [] e.enc = "long" -> e.vr \o <<0, 0>> \o u32(e.declared)
       [] OTHER -> u32(e.declared))
    \o e.value

RECURSIVE encodeAll(_)
encodeAll(elements) ==
  IF elements = <<>> THEN <<>> ELSE encode(Head(elements)) \o encodeAll(Tail(elements))

\* a well-formed element: the declared length is the length of the value
Element(tag, enc, vr, value) ==
  [tag |-> tag, enc |-> enc, vr |-> vr, value |-> value, declared |-> Len(value)]

US == <<85, 83>>
CS == <<67, 83>>
DS == <<68, 83>>
OW == <<79, 87>>

\* Rows 512, Columns 512 and PixelSpacing "1\1 " in explicit VR
GeometryElements ==
  << Element(<<40, 16>>, "short", US, u16(512)),
     Element(<<40, 17>>, "short", US, u16(512)),
     Element(<<40, 48>>, "short", DS, <<49, 92, 49, 32>>) >>

\* well-formed elements: Rows 50 and 256, Columns 512, SamplesPerPixel 1 and
\* 3, PhotometricInterpretation "RGB ", a red palette descriptor (256, 0, 16),
\* red palette data, WindowCenter "40", and Modality "CT", which no case reads
WellFormedElements ==
  { Element(<<40, 16>>, "short", US, u16(50)),
    Element(<<40, 16>>, "implicit", <<>>, u16(256)),
    Element(<<40, 17>>, "short", US, u16(512)),
    Element(<<40, 2>>, "short", US, u16(1)),
    Element(<<40, 2>>, "implicit", <<>>, u16(3)),
    Element(<<40, 4>>, "short", CS, <<82, 71, 66, 32>>),
    Element(<<40, 4353>>, "short", US, u16(256) \o u16(0) \o u16(16)),
    Element(<<40, 4609>>, "long", OW, u16(1) \o u16(2)),
    Element(<<40, 4176>>, "short", DS, <<52, 48>>),
    Element(<<8, 96>>, "short", CS, <<67, 84>>) }

\* what may follow the well-formed elements: nothing, fewer bytes than an
\* element header, or an element declaring more bytes than the buffer holds
\* (a value cut short, a length of 1000, a length of 0x64000000; the lengths
\* of the model stay below 2^31, the code computes in doubles)
Endings ==
  { <<>>, <<40, 0, 16>>,
    encode([Element(<<40, 17>>, "short", US, <<0>>) EXCEPT !.declared = 2]),
    encode([Element(<<40, 4609>>, "long", OW, u16(1)) EXCEPT !.declared = 1000]),
    encode([Element(<<40, 4355>>, "implicit", <<>>, <<>>) EXCEPT !.declared = 1677721600]) }

\* the most elements that follow the optional geometry elements
MaxElements == 2

\* the state of a scan at its start
ScanStart ==
  [ fn |-> "parseImplicitVrLittleEndianForCommonTags", offset |-> 0,
    metadata |-> <<>>, highest |-> -1, broke |-> FALSE ]

InitScan ==
  /\ \E geometry \in {<<>>, GeometryElements},
        elements \in SeqsUpTo(WellFormedElements, MaxElements),
        ending \in Endings :
       arrayBuffer = [ kind |-> "bytes",
                       elements |-> geometry \o elements,
                       ending |-> ending,
                       bytes |-> encodeAll(geometry \o elements) \o ending ]
  /\ tried = <<>>
  /\ extracted = {}
  /\ call = ScanStart
  /\ returned = [kind |-> "none"]
  /\ pc = "scan"
  /\ error = ""
  /\ LoadIdle
  /\ MultipartIdle
  /\ PrefetchIdle

\* one iteration of while (offset + 8 <= len) on the locals of the scan; a
\* getter called with an offset outside the buffer raises a RangeError
iteration(bytes, locals) ==
  TheOnly({
    IF header.highest >= Len(bytes)
    THEN [ raised |-> TRUE,
           locals |-> [locals EXCEPT !.highest = Max(@, header.highest)] ]
    ELSE IF header.broke
    THEN [ raised |-> FALSE,
           locals |-> [locals EXCEPT !.broke = TRUE, !.offset = header.valueOffset,
                                     !.highest = Max(@, header.highest)] ]
    ELSE IF highestValueRead(bytes, header) >= Len(bytes)
    THEN [ raised |-> TRUE,
           locals |-> [locals EXCEPT
                         !.highest = Max(@, highestValueRead(bytes, header))] ]
    ELSE [ raised |-> FALSE,
           locals |-> [locals EXCEPT
                         !.metadata = assign(@, bytes, header),
                         !.offset = header.valueOffset + header.valueLength,
                         !.highest = Max(Max(@, header.highest),
                                         highestValueRead(bytes, header))] ]
    : header \in {elementHeader(bytes, locals.offset)} })

\* the loop body; the catch turns a RangeError into a null result
ScanElement ==
  /\ pc = "scan"
  /\ ~call.broke
  /\ call.offset + 8 <= Len(arrayBuffer.bytes)
  /\ call' = iteration(arrayBuffer.bytes, call).locals
  /\ returned' = IF iteration(arrayBuffer.bytes, call).raised
                 THEN [kind |-> "null"] ELSE returned
  /\ pc' = IF iteration(arrayBuffer.bytes, call).raised THEN "returned" ELSE pc
  /\ UNCHANGED <<error, loadVars, extractVars, multipartVars, prefetchVars>>

\* return keys.length ? metadata : null, once the loop has ended
ScanReturn ==
  /\ pc = "scan"
  /\ call.broke \/ call.offset + 8 > Len(arrayBuffer.bytes)
  /\ returned' = IF DOMAIN call.metadata = {} THEN [kind |-> "null"]
                 ELSE [kind |-> "metadata", metadata |-> call.metadata]
  /\ pc' = "returned"
  /\ UNCHANGED <<call, error, loadVars, extractVars, multipartVars, prefetchVars>>

NextScan == ScanElement \/ ScanReturn

SpecScan == InitScan /\ [][NextScan]_vars

\* the scan is synchronous code: an iteration that can run runs
SpecScanFair == SpecScan /\ WF_vars(ScanElement) /\ WF_vars(ScanReturn)

\* the keys of the whitelisted tags among the well-formed elements
KeysOf(elements) ==
  { CaseOf(elements[i].tag).key :
      i \in { j \in DOMAIN elements :
                /\ Whitelisted(elements[j].tag)
                /\ CaseOf(elements[j].tag).fn # "window" } }
    \cup
  { CaseOf(elements[i].tag).key :
      i \in { j \in DOMAIN elements :
                /\ Whitelisted(elements[j].tag)
                /\ CaseOf(elements[j].tag).fn = "window" } }

\* the buffer ends in an element whose declared length runs past its end
EndsInOverrun == Len(arrayBuffer.ending) >= 8

\* no getter read outside the buffer, nothing was raised, and what the scan
\* returns are the attributes of the elements in front of the ending
ScanSafe ==
  /\ call.highest < Len(arrayBuffer.bytes)
  /\ call.offset <= Len(arrayBuffer.bytes)
  /\ error = ""
  /\ pc = "returned" =>
        /\ EndsInOverrun => call.broke
        /\ IF KeysOf(arrayBuffer.elements) = {}
           THEN returned = [kind |-> "null"]
           ELSE /\ returned.kind = "metadata"
                /\ DOMAIN returned.metadata = KeysOf(arrayBuffer.elements)

\* C26: on every byte buffer the byte-level scanner terminates, never reads
\* at an offset beyond the end of the buffer, and when an element's declared
\* length would run past the buffer end it stops without raising and returns
\* the attributes gathered before that element, or no result if there are
\* none.
C26_ScannerBoundedAndTotal == []ScanSafe /\ <>(pc = "returned")

\* a scan that gathered Rows and Columns, met an element declaring 1000
\* bytes where 2 are left, and returned the two attributes
C26_Witness ==
  /\ pc = "returned"
  /\ call.broke
  /\ arrayBuffer.ending =
       encode([Element(<<40, 4609>>, "long", OW, u16(1)) EXCEPT !.declared = 1000])
  /\ returned.kind = "metadata"
  /\ {"Rows", "Columns"} \subseteq DOMAIN returned.metadata
  /\ "RedPaletteColorLookupTableData" \notin DOMAIN returned.metadata

\* the last element of a buffer that carries a tag
LastWith(elements, tag) ==
  LET at == {i \in DOMAIN elements : elements[i].tag = tag}
  IN elements[CHOOSE i \in at : \A j \in at : j <= i]

Carries(elements, tag) == \E i \in DOMAIN elements : elements[i].tag = tag

\* C28: for a buffer of well-formed elements the scanner returns, for each
\* whitelisted tag present, the value encoded in the element: Rows, Columns
\* and SamplesPerPixel equal the encoded 16-bit unsigned integers, and the
\* palette descriptor and data located after the geometry tags are returned
\* as their 16-bit words.
C28_ScannerReturnsEncodedValues ==
  (pc = "returned" /\ call.fn = ScanStart.fn /\ arrayBuffer.ending = <<>>) =>
     LET elements == arrayBuffer.elements
     IN /\ \A c \in {k \in TagTable : k.fn = "parseInt"} :
              Carries(elements, c.tag) =>
                 returned.metadata[c.key] =
                   [number |-> {getUint16(LastWith(elements, c.tag).value, 0)}]
        /\ \A c \in {k \in TagTable : k.fn = "readWords"} :
              Carries(elements, c.tag) =>
                 returned.metadata[c.key] =
                   [words |-> readWords(LastWith(elements, c.tag).value, 0,
                                        Len(LastWith(elements, c.tag).value))]

----------------------------------------------------------------------------
(* fetchPaletteColorLookupTableData *)

\* a base64 text is a sequence of codes: 0..63 are the digits of the
\* alphabet, PAD is '=', and a larger code is a character outside the alphabet
PAD == 64

\* atob: one or two '=' are dropped from a text whose length is a multiple of 4
stripPadding(text) ==
  IF Len(text) % 4 = 0 /\ Len(text) >= 2 /\ text[Len(text)] = PAD
  THEN IF text[Len(text) - 1] = PAD THEN SubSeq(text, 1, Len(text) - 2)
       ELSE SubSeq(text, 1, Len(text) - 1)
  ELSE text

\* the byte at index k (from 0) of the bits that 6-bit digits spell
byteOf(digits, k) ==
  LET i == (8 * k) \div 6 + 1
      r == (8 * k) % 6
  IN CASE r = 0 -> digits[i] * 4 + digits[i + 1] \div 16
       [] r = 2 -> (digits[i] % 16) * 16 + digits[i + 1] \div 4
       [] OTHER -> (digits[i] % 4) * 64 + digits[i + 1]

\* atob(text): the bytes the text encodes; an InvalidCharacterError when a
\* character is outside the alphabet or one digit is left over
atob(text) ==
  LET digits == stripPadding(text)
  IN IF Len(digits) % 4 = 1 \/ \E i \in DOMAIN digits : digits[i] >= PAD
     THEN [raised |-> TRUE, bytes |-> <<>>]
     ELSE [ raised |-> FALSE,
            bytes |-> [k \in 1..((Len(digits) * 6) \div 8) |-> byteOf(digits, k - 1)] ]

\* arrayBufferToPaletteColorLUT: numLutEntries entries of the buffer read as
\* 8-bit or, when bits is 16, as 16-bit values; an entry past the end of the
\* data is undefined; new Uint16Array raises a RangeError on an odd length
arrayBufferToPaletteColorLUT(bytes, numLutEntries, bits) ==
  IF bits = 16 /\ Len(bytes) % 2 = 1 THEN [raised |-> TRUE, lut |-> <<>>]
  ELSE [ raised |-> FALSE,
         lut |-> [i \in 1..numLutEntries |->
                    IF bits = 16
                    THEN IF 2 * i <= Len(bytes)
                         THEN {getUint16(bytes, 2 * (i - 1))} ELSE undefined
                    ELSE IF i <= Len(bytes) THEN {bytes[i]} ELSE undefined] ]

\* the palette data under the tag of an item: undefined, null, or an object
\* with an optional palette, an InlineBinary text ("" is <<>>) and an
\* optional retrieveBulkData
NoPaletteData(kind) ==
  [kind |-> kind, palette |-> undefined, InlineBinary |-> <<>>, retrieveBulkData |-> FALSE]

\* _getPaletteColor(paletteColorLookupTableData, lutDescriptor): what is
\* returned or raised, and the palette stored on the data object
getPaletteColor(data, lutDescriptor) ==
  IF \/ lutDescriptor.kind = "undefined"
     \/ lutDescriptor.kind = "number" /\ lutDescriptor.value = 0
  THEN [kind |-> "undefined", data |-> data]
  ELSE IF lutDescriptor.kind = "number"
  THEN [kind |-> "raised", error |-> "TypeError", data |-> data]
  ELSE IF Len(lutDescriptor.entries) < 3
  THEN [kind |-> "undefined", data |-> data]
  ELSE IF data.kind # "object"
  THEN [kind |-> "raised", error |-> "TypeError", data |-> data]
  ELSE IF data.palette # undefined
  THEN [kind |-> "palette", palette |-> ValueOf(data.palette), data |-> data]
  ELSE IF data.InlineBinary # <<>>
  THEN TheOnly({
         IF decoded.raised \/ arrayBufferToPaletteColorLUT(decoded.bytes,
               lutDescriptor.entries[1], lutDescriptor.entries[3]).raised
         THEN [kind |-> "undefined", data |-> data]
         ELSE [ kind |-> "palette",
                palette |-> arrayBufferToPaletteColorLUT(decoded.bytes,
                              lutDescriptor.entries[1], lutDescriptor.entries[3]).lut,
                data |-> [data EXCEPT !.palette =
                            {arrayBufferToPaletteColorLUT(decoded.bytes,
                               lutDescriptor.entries[1], lutDescriptor.entries[3]).lut}] ]
         : decoded \in {atob(data.InlineBinary)} })
  ELSE IF data.retrieveBulkData
  THEN [kind |-> "promise", data |-> data]
  ELSE [kind |-> "undefined", data |-> data]

\* fetchPaletteColorLookupTableData(item, tag, descriptorTag); data and
\* descriptor are item[tag] and item[descriptorTag]
fetchPaletteColorLookupTableData(item) ==
  IF item.data.kind = "undefined" /\ ~item.hasUID
  THEN [kind |-> "undefined", data |-> item.data]
  ELSE getPaletteColor(item.data, item.descriptor)

\* the most entries of a descriptor
MaxDescriptorLen == 4

\* descriptors: absent, the numbers 0 and 256, and arrays of up to
\* MaxDescriptorLen entries starting [numLutEntries, firstMapped, bitsPerEntry]
Descriptors ==
  { [kind |-> "undefined"], [kind |-> "number", value |-> 0],
    [kind |-> "number", value |-> 256] }
  \cup { [ kind |-> "array",
           entries |-> [i \in 1..n |-> CASE i = 1 -> entriesCount
                                         [] i = 3 -> bits
                                         [] OTHER -> 0] ] :
         n \in 0..MaxDescriptorLen, entriesCount \in {2, 3}, bits \in {8, 16} }

\* InlineBinary texts: none, "ChQe" (bytes 10 20 30), "AQI=" (bytes 1 2),
\* "AQ" (byte 1) and a text with a character outside the alphabet
InlineTexts ==
  { <<>>, <<2, 33, 16, 30>>, <<0, 16, 8, PAD>>, <<0, 16>>, <<2, 33, 65, 30>> }

PaletteData ==
  { NoPaletteData("undefined"), NoPaletteData("null") }
  \cup { [ kind |-> "object", palette |-> palette, InlineBinary |-> text,
           retrieveBulkData |-> bulk ] :
         palette \in {undefined, {<<{7}, {8}, {9}>>}}, text \in InlineTexts,
         bulk \in BOOLEAN }

\* the buffers a retrieveBulkData may resolve to
BulkBuffers == { <<1, 2, 3, 4>>, <<1, 2, 3>> }

InitPalette ==
  /\ \E hasUID \in BOOLEAN, data \in PaletteData, descriptor \in Descriptors :
       call = [ fn |-> "fetchPaletteColorLookupTableData",
                item |-> [hasUID |-> hasUID, data |-> data, descriptor |-> descriptor] ]
  /\ returned = [kind |-> "none"]
  /\ pc = "call"
  /\ error = ""
  /\ LoadIdle
  /\ ExtractIdle
  /\ MultipartIdle
  /\ PrefetchIdle

\* the call of fetchPaletteColorLookupTableData
FetchPalette ==
  /\ pc = "call"
  /\ call.fn = "fetchPaletteColorLookupTableData"
  /\ LET result == fetchPaletteColorLookupTableData(call.item)
     IN /\ returned' = IF result.kind = "palette"
                       THEN [kind |-> "palette", palette |-> result.palette]
                       ELSE IF result.kind = "raised"
                       THEN [kind |-> "raised", error |-> result.error]
                       ELSE [kind |-> result.kind]
        /\ call' = [call EXCEPT !.item.data = result.data]
  /\ pc' = "returned"
  /\ UNCHANGED <<error, loadVars, extractVars, multipartVars, prefetchVars>>

\* .then(val => (paletteColorLookupTableData.palette =
\* arrayBufferToPaletteColorLUT(val))): the bulk data arrives; the promise is
\* rejected when the conversion raises
BulkDataArrives ==
  /\ pc = "returned"
  /\ returned = [kind |-> "promise"]
  /\ \E val \in BulkBuffers :
       LET arrived == arrayBufferToPaletteColorLUT(val,
                           call.item.descriptor.entries[1],
                           call.item.descriptor.entries[3])
       IN IF arrived.raised
          THEN /\ returned' = [kind |-> "promise", settled |-> "rejected"]
               /\ call' = call
          ELSE /\ returned' = [ kind |-> "promise", settled |-> "fulfilled",
                                palette |-> arrived.lut ]
               /\ call' = [call EXCEPT !.item.data.palette = {arrived.lut}]
  /\ UNCHANGED <<pc, error, loadVars, extractVars, multipartVars, prefetchVars>>

NextPalette == FetchPalette \/ BulkDataArrives

SpecPalette == InitPalette /\ [][NextPalette]_vars

\* the descriptor of the call is missing or has fewer than 3 entries
DescriptorMissingOrShort ==
  \/ call.item.descriptor.kind = "undefined"
  \/ call.item.descriptor.kind = "array" /\ Len(call.item.descriptor.entries) < 3

\* C27: fetchPaletteColorLookupTableData returns undefined, without raising,
\* whenever the item has no palette data under the requested tag (also when
\* only a PaletteColorLookupTableUID is present) or its descriptor is missing
\* or has fewer than 3 entries; it returns palette entries only when both
\* data and a descriptor of at least 3 entries are present.
C27_UndefinedWithoutPaletteOrDescriptor ==
  (pc = "returned" /\ call.fn = "fetchPaletteColorLookupTableData") =>
     /\ (call.item.data.kind = "undefined" \/ DescriptorMissingOrShort) =>
           returned = [kind |-> "undefined"]
     /\ returned.kind \in {"palette", "promise"} =>
           /\ call.item.data.kind = "object"
           /\ call.item.descriptor.kind = "array"
           /\ Len(call.item.descriptor.entries) >= 3

----------------------------------------------------------------------------
(* The order of the prefetch groups *)

\* the number of the group a series of the batch falls in, counted from 0
GroupOf(i) == (i - 1) \div CONCURRENCY_LIMIT

\* the call for a series has been started
Started(i) == task[i].pc # "pending"

\* C30: prefetchSeriesFirstImages takes the descriptors in consecutive groups
\* of four and starts no series of a group before every series of the groups
\* in front has settled; so while one retrieval never completes, no series of
\* a later group is started and the call does not return its mapping.
C30_GroupsSettleInOrder ==
  /\ \A i \in DOMAIN task : \A j \in DOMAIN task :
        (Started(i) /\ GroupOf(j) < GroupOf(i)) => task[j].pc = "settled"
  /\ \A i \in DOMAIN task :
        Started(i) => \A j \in DOMAIN task :
                         (GroupOf(j) = GroupOf(i)) => Started(j)
  /\ \A h \in hung :
        /\ pc # "prefetched"
        /\ \A j \in DOMAIN task : GroupOf(j) > GroupOf(h) => ~Started(j)

\* five series, the retrieval of one of the first four never completes, the
\* other three have settled, and the fifth has not been started
C30_Witness ==
  /\ pc = "prefetch"
  /\ Len(displaySets) = CONCURRENCY_LIMIT + 1
  /\ hung # {}
  /\ \A h \in hung : task[h].pc = "fetching"
  /\ \A i \in 1..CONCURRENCY_LIMIT : i \notin hung => task[i].pc = "settled"
  /\ ~Started(CONCURRENCY_LIMIT + 1)

----------------------------------------------------------------------------
(* Image identifiers handed to the store and to the rendering layer *)

\* what getImageIdsForInstance hands back for one call: getImageId is an
\* input of these functions; an identifier is undefined or a string, a
\* string being the sequence of its scheme and the segments after the colon,
\* "" being <<>> and " " being <<" ">>
ImageIdOutcomes ==
  { undefined, {<<>>}, {<<" ">>}, {<<"dicomweb", "u">>}, {<<"wadors", "u">>},
    {<<"wadouri", "u">>} }

\* !imageId || typeof imageId !== 'string' || imageId.trim() === ''
isBlankId(imageId) == imageId = undefined \/ ValueOf(imageId) \in {<<>>, <<" ">>}

\* id.startsWith('wadors:') || id.startsWith('wadouri:')
startsWithWado(id) == id # <<>> /\ id[1] \in {"wadors", "wadouri"}

\* the fields of a synthesized instance record that carry its identity
\* (_imageId: context.imageId)
synthesizedIdentity(instance, imageId) ==
  [SOPInstanceUID |-> instance.sopInstanceUID, _imageId |-> imageId]

\* the registration addImageIdToUIDs is called with
registration(displaySet, instance, imageId) ==
  [ imageId |-> imageId, StudyInstanceUID |-> displaySet.studyInstanceUID,
    SeriesInstanceUID |-> displaySet.seriesInstanceUID,
    SOPInstanceUID |-> instance.sopInstanceUID ]

\* retrieveMadoMetadata.ts: the identifier of an instance, with the 'mado:'
\* fallback for a blank one
imageIdOrFallback(displaySet, instance) ==
  IF isBlankId(instance.imageId)
  THEN {<< "mado", displaySet.studyInstanceUID, displaySet.seriesInstanceUID,
           instance.sopInstanceUID >>}
  ELSE instance.imageId

\* retrieveMadoMetadata.ts: synthesizedInstances.filter(...), the records
\* whose _imageId is a string with one of the two prefixes
validSynthesizedInstances(synthesizedInstances) ==
  SelectSeq(synthesizedInstances,
            LAMBDA inst : inst._imageId # undefined /\ inst._imageId # {<<>>}
                            /\ startsWithWado(ValueOf(inst._imageId)))

\* getImageIdsForDisplaySet: the strings of non-zero length among the
\* identifiers, then those with one of the two prefixes
validWadoImageIds(imageIds) ==
  LET filteredImageIds ==
        SelectSeq(imageIds, LAMBDA id : id # undefined /\ id # {<<>>})
  IN SelectSeq([i \in DOMAIN filteredImageIds |-> ValueOf(filteredImageIds[i])],
               startsWithWado)

\* the most instances of the series handed to a store write
MaxStoreInst == 2

\* single-frame instances of one series: what getImageIdsForInstance returns
\* for the instance with the UIDs of the series (imageId) and for the plain
\* instance (frameImageId)
StoreInstances ==
  { [ sopInstanceUID |-> "sop", InstanceNumber |-> 0, imageId |-> imageId,
      frameImageId |-> frameImageId ] :
    imageId \in ImageIdOutcomes, frameImageId \in ImageIdOutcomes }

\* the series of a store write, its instances numbered in order
StoreSeries(instances) ==
  [ studyInstanceUID |-> "S1", seriesInstanceUID |-> "SE1", seriesDate |-> "",
    modality |-> "CT",
    instances |-> [i \in DOMAIN instances |->
                     [instances[i] EXCEPT !.sopInstanceUID = SopOf[i],
                                          !.InstanceNumber = i]] ]

\* the two implementations of retrieveMadoMetadata and the display-set call
StoreFunctions ==
  {"retrieveMadoMetadata.ts", "retrieveMadoMetadata", "getImageIdsForDisplaySet"}

InitStore ==
  /\ \E fn \in StoreFunctions, instances \in SeqsUpTo(StoreInstances, MaxStoreInst) :
       call = [fn |-> fn, displaySet |-> StoreSeries(instances)]
  /\ returned = [kind |-> "none"]
  /\ pc = "call"
  /\ error = ""
  /\ LoadIdle
  /\ ExtractIdle
  /\ MultipartIdle
  /\ PrefetchIdle

\* retrieveMadoMetadata.ts: synthesize the instances of the series, register
\* their identifiers, keep the valid ones, and write the series and its
\* valid instances to the store when there are any
StoreValidInstances ==
  /\ pc = "call"
  /\ call.fn = "retrieveMadoMetadata.ts"
  /\ LET ds == call.displaySet
         synthesizedInstances ==
           [i \in DOMAIN ds.instances |->
              synthesizedIdentity(ds.instances[i], imageIdOrFallback(ds, ds.instances[i]))]
         valid == validSynthesizedInstances(synthesizedInstances)
     IN /\ registered' =
             { registration(ds, ds.instances[i], imageIdOrFallback(ds, ds.instances[i])) :
               i \in DOMAIN ds.instances }
        /\ store' = IF valid = <<>> THEN store
                    ELSE [ series |-> <<synthesizeSeriesMetadata(ds)>>,
                           instances |-> valid ]
  /\ returned' = [kind |-> "undefined"]
  /\ pc' = "returned"
  /\ UNCHANGED <<call, error, manifest, displaySets, metaMap, cursor, synIn, synOut,
                 extractVars, multipartVars, prefetchVars>>

\* retrieveMadoMetadata with the per-series store block: write the series,
\* synthesize every instance with the identifier getImageIdsForInstance
\* returned, register the identifiers that are truthy, write every instance
StoreAllInstances ==
  /\ pc = "call"
  /\ call.fn = "retrieveMadoMetadata"
  /\ LET ds == call.displaySet
         synthesizedInstances ==
           [i \in DOMAIN ds.instances |->
              synthesizedIdentity(ds.instances[i], ds.instances[i].imageId)]
     IN /\ registered' =
             { registration(ds, ds.instances[i], ds.instances[i].frameImageId) :
               i \in {j \in DOMAIN ds.instances :
                        ds.instances[j].frameImageId \notin {undefined, {<<>>}}} }
        /\ store' = [ series |-> <<synthesizeSeriesMetadata(ds)>>,
                      instances |-> synthesizedInstances ]
  /\ returned' = [kind |-> "undefined"]
  /\ pc' = "returned"
  /\ UNCHANGED <<call, error, manifest, displaySets, metaMap, cursor, synIn, synOut,
                 extractVars, multipartVars, prefetchVars>>

\* getImageIdsForDisplaySet on single-frame images without position data,
\* numbered in order, which the sort by InstanceNumber leaves in place: one
\* identifier per image, then the two filters
GetImageIdsForDisplaySet ==
  /\ pc = "call"
  /\ call.fn = "getImageIdsForDisplaySet"
  /\ returned' =
       [ kind |-> "imageIds",
         imageIds |-> validWadoImageIds([i \in DOMAIN call.displaySet.instances |->
                                           call.displaySet.instances[i].frameImageId]) ]
  /\ pc' = "returned"
  /\ UNCHANGED <<call, error, loadVars, extractVars, multipartVars, prefetchVars>>

NextStore == StoreValidInstances \/ StoreAllInstances \/ GetImageIdsForDisplaySet

SpecStore == InitStore /\ [][NextStore]_vars

\* an identifier that is a string beginning with 'wadors:' or 'wadouri:'
IsWadoId(imageId) == imageId # undefined /\ startsWithWado(ValueOf(imageId))

\* C23: every instance record a manifest load writes to the store, and every
\* image id getImageIdsForDisplaySet returns, has an identifier beginning
\* with 'wadors:' or 'wadouri:'; an instance whose identifier is empty,
\* undefined or has another prefix is not handed to the store.
C23_OnlyWadoIdsHandedOn ==
  (pc = "returned" /\ call.fn \in StoreFunctions) =>
     /\ \A i \in DOMAIN store.instances : IsWadoId(store.instances[i]._imageId)
     /\ returned.kind = "imageIds" =>
           \A i \in DOMAIN returned.imageIds : startsWithWado(returned.imageIds[i])

====
